---- MODULE Spec2Model ----
(***************************************************************************)
(* HTTP media type negotiator: parseMediaType, parseAcceptHeader,          *)
(* normaliseMediaType, findQ and negotiateMediaTypeFactory.                *)
(*                                                                         *)
(* A string is a sequence of one-character strings; positions in the code  *)
(* are 0-based, so the character at position pos is s[pos + 1].            *)
(***************************************************************************)
EXTENDS Integers, Sequences, FiniteSets, TLC

(***************************************************************************)
(* Bounds of the model.                                                    *)
(***************************************************************************)
MaxAvail == 2
MaxRanges == 2
MaxCalls == 2
MaxPieces == 3
MaxFragments == 3
MaxParams == 3
MaxQLen == 6
MaxScanPieces == 3

(***************************************************************************)
(* Characters.                                                             *)
(***************************************************************************)
\* The printable ASCII characters in code unit order, starting at U+0020.
\* (The grave accent cannot be written in a string of this language; its
\* place is held by "U+0060", which no input of the model contains.)
Ascii ==
  << " ", "!", "\"", "#", "$", "%", "&", "'", "(", ")", "*", "+", ",", "-",
     ".", "/", "0", "1", "2", "3", "4", "5", "6", "7", "8", "9", ":", ";",
     "<", "=", ">", "?", "@", "A", "B", "C", "D", "E", "F", "G", "H", "I",
     "J", "K", "L", "M", "N", "O", "P", "Q", "R", "S", "T", "U", "V", "W",
     "X", "Y", "Z", "[", "\\", "]", "^", "_", "U+0060", "a", "b", "c", "d", "e",
     "f", "g", "h", "i", "j", "k", "l", "m", "n", "o", "p", "q", "r", "s",
     "t", "u", "v", "w", "x", "y", "z", "{", "|", "}", "~" >>

\* Code unit of a character (U+0009 for the tab).
Code(c) ==
  IF c = "\t" THEN 9
  ELSE 31 + (CHOOSE i \in 1..Len(Ascii) : Ascii[i] = c)

\* What accept[pos] yields at pos = accept.length (undefined).
EOF == "undefined"

DIGIT == {"0", "1", "2", "3", "4", "5", "6", "7", "8", "9"}

UPPER ==
  {"A", "B", "C", "D", "E", "F", "G", "H", "I", "J", "K", "L", "M", "N", "O",
   "P", "Q", "R", "S", "T", "U", "V", "W", "X", "Y", "Z"}

LOWER ==
  {"a", "b", "c", "d", "e", "f", "g", "h", "i", "j", "k", "l", "m", "n", "o",
   "p", "q", "r", "s", "t", "u", "v", "w", "x", "y", "z"}

\* RFC 9110 section 5.6.2 tchar.
TOKEN ==
  {"!", "#", "$", "%", "&", "'", "*", "+", "-", ".", "^", "_", "U+0060", "|", "~",
   "0", "1", "2", "3", "4", "5", "6", "7", "8", "9",
   "A", "B", "C", "D", "E", "F", "G", "H", "I", "J", "K", "L", "M", "N", "O",
   "P", "Q", "R", "S", "T", "U", "V", "W", "X", "Y", "Z",
   "a", "b", "c", "d", "e", "f", "g", "h", "i", "j", "k", "l", "m", "n", "o",
   "p", "q", "r", "s", "t", "u", "v", "w", "x", "y", "z"}

\* RFC 9110 section 5.6.3 OWS.
OWS == {" ", "\t"}

\* Mutation: the at sign counts as a token character.
isTokenOrAt(c) == c \in TOKEN \cup {"@"}

isToken(c) == c \in TOKEN

\* Mutation: only the horizontal tab is optional whitespace.
isOWSTabOnly(c) == c = "\t"

isOWS(c) == c \in OWS

\* String.prototype.toLowerCase on one ASCII character.
LowerChar(c) == IF c \in UPPER THEN Ascii[Code(c) - 31 + 32] ELSE c

toLowerCase(s) == [i \in 1..Len(s) |-> LowerChar(s[i])]

\* mediaType[pos]
CharAt(s, pos) == IF pos >= 0 /\ pos < Len(s) THEN s[pos + 1] ELSE EOF

\* Mutation: the slice is taken in lower case.
SliceLowerCased(s, from, to) ==
  IF to > from
    THEN [i \in 1..(to - from) |->
            IF s[from + i] \in {"A", "B", "P", "Y"}
              THEN CHOOSE c \in {"a", "b", "p", "y"} :
                     <<s[from + i], c>> \in
                       {<<"A", "a">>, <<"B", "b">>, <<"P", "p">>, <<"Y", "y">>}
              ELSE s[from + i]]
    ELSE <<>>

\* mediaType.slice(from, to) for 0 <= from, to <= length
Slice(s, from, to) == IF to > from THEN SubSeq(s, from + 1, to) ELSE <<>>

\* a < b for strings, by code units (the JS relational comparison)
RECURSIVE StrLess(_, _)
StrLess(a, b) ==
  IF b = <<>> THEN FALSE
  ELSE IF a = <<>> THEN TRUE
  ELSE IF Code(Head(a)) < Code(Head(b)) THEN TRUE
  ELSE IF Code(Head(a)) > Code(Head(b)) THEN FALSE
  ELSE StrLess(Tail(a), Tail(b))

(***************************************************************************)
(* The states of the two scanners.                                         *)
(***************************************************************************)
STATE_INVALID == -1
STATE_INITIAL == 0
STATE_TYPE == 1
STATE_SUBTYPE_START == 2
STATE_SUBTYPE == 3
STATE_SUBTYPE_END == 4
STATE_PARAMS_START == 5
STATE_PARAMETER_NAME == 6
STATE_PARAMETER_NAME_END == 7
STATE_PARAMETER_VALUE_START == 8
STATE_PARAMETER_VALUE == 9
STATE_PARAMETER_QUOTED == 10

\* pos = Infinity
Infinity == 1000000

(***************************************************************************)
(* parseMediaType                                                          *)
(***************************************************************************)
\* .replace(/\\(.)/g, (_, c) => c): a backslash and the character after it
\* become that character; a backslash at the very end stays.
RECURSIVE Unescape(_)
Unescape(s) ==
  IF s = <<>> THEN <<>>
  ELSE IF Head(s) = "\\" /\ Len(s) >= 2
    THEN <<s[2]>> \o Unescape(SubSeq(s, 3, Len(s)))
    ELSE <<Head(s)>> \o Unescape(Tail(s))

\* The scanner's locals before the first iteration.
ParseStart ==
  [state |-> STATE_INITIAL, pos |-> 0, s |-> 0, t |-> <<>>,
   type |-> <<>>, subtype |-> <<>>, params |-> <<>>]

\* One iteration of the for loop's switch, at position p.pos; the loop's
\* pos++ is applied by ParseLoop.
ParseSwitch(mediaType, permissive, p) ==
  LET pos == p.pos
      chr == CharAt(mediaType, pos)
  IN
  CASE p.state = STATE_INITIAL ->
         IF isToken(chr) THEN [p EXCEPT !.state = STATE_TYPE, !.s = pos]
         ELSE IF isOWS(chr) THEN p
         ELSE [p EXCEPT !.state = STATE_INVALID]
    [] p.state = STATE_TYPE ->
         IF isToken(chr) THEN p
         ELSE IF chr = "/"
           THEN [p EXCEPT !.type = Slice(mediaType, p.s, pos),
                          !.state = STATE_SUBTYPE_START]
         ELSE [p EXCEPT !.state = STATE_INVALID]
    [] p.state = STATE_SUBTYPE_START ->
         IF isToken(chr) THEN [p EXCEPT !.state = STATE_SUBTYPE, !.s = pos]
         ELSE IF permissive /\ isOWS(chr) THEN p
         ELSE [p EXCEPT !.state = STATE_INVALID]
    [] p.state = STATE_SUBTYPE ->
         IF isToken(chr) THEN p
         ELSE IF chr = ";" \/ chr = EOF
           THEN [p EXCEPT !.subtype = Slice(mediaType, p.s, pos),
                          !.state = STATE_PARAMS_START]
         ELSE IF isOWS(chr)
           THEN [p EXCEPT !.subtype = Slice(mediaType, p.s, pos),
                          !.state = STATE_SUBTYPE_END]
         ELSE [p EXCEPT !.state = STATE_INVALID]
    [] p.state = STATE_SUBTYPE_END ->
         IF chr = ";" \/ chr = EOF THEN [p EXCEPT !.state = STATE_PARAMS_START]
         ELSE IF isOWS(chr) THEN p
         ELSE [p EXCEPT !.state = STATE_INVALID]
    [] p.state = STATE_PARAMS_START ->
         IF isToken(chr)
           THEN [p EXCEPT !.state = STATE_PARAMETER_NAME, !.s = pos]
         ELSE IF isOWS(chr) \/ chr = ";" \/ chr = EOF THEN p
         ELSE [p EXCEPT !.state = STATE_INVALID]
    [] p.state = STATE_PARAMETER_NAME ->
         IF isToken(chr) THEN p
         ELSE IF chr = "="
           THEN [p EXCEPT !.state = STATE_PARAMETER_VALUE_START,
                          !.t = Slice(mediaType, p.s, pos)]
         ELSE IF permissive /\ isOWS(chr)
           THEN [p EXCEPT !.state = STATE_PARAMETER_NAME_END,
                          !.t = Slice(mediaType, p.s, pos)]
         ELSE IF permissive /\ (chr = ";" \/ chr = EOF)
           THEN [p EXCEPT
                   !.params = Append(@, <<Slice(mediaType, p.s, pos), <<>> >>),
                   !.state = STATE_PARAMS_START]
         ELSE [p EXCEPT !.state = STATE_INVALID]
    [] p.state = STATE_PARAMETER_NAME_END ->
         IF isOWS(chr) THEN p
         ELSE IF chr = ";" \/ chr = EOF
           THEN [p EXCEPT !.params = Append(@, <<p.t, <<>> >>),
                          !.state = STATE_PARAMS_START]
         ELSE IF chr = "="
           THEN [p EXCEPT !.state = STATE_PARAMETER_VALUE_START]
         ELSE p
    [] p.state = STATE_PARAMETER_VALUE_START ->
         IF isToken(chr)
           THEN [p EXCEPT !.state = STATE_PARAMETER_VALUE, !.s = pos]
         ELSE IF chr = "\""
           THEN [p EXCEPT !.state = STATE_PARAMETER_QUOTED, !.s = pos + 1]
         ELSE IF permissive /\ isOWS(chr) THEN p
         ELSE IF permissive /\ (chr = ";" \/ chr = EOF)
           THEN [p EXCEPT !.state = STATE_PARAMS_START,
                          !.params = Append(@, <<p.t, <<>> >>)]
         ELSE [p EXCEPT !.state = STATE_INVALID]
    [] p.state = STATE_PARAMETER_VALUE ->
         IF isToken(chr) THEN p
         ELSE IF chr = ";" \/ chr = EOF
           THEN [p EXCEPT
                   !.state = STATE_PARAMS_START,
                   !.params = Append(@, <<p.t, Slice(mediaType, p.s, pos)>>)]
         ELSE IF isOWS(chr)
           THEN [p EXCEPT
                   !.state = STATE_SUBTYPE_END,
                   !.params = Append(@, <<p.t, Slice(mediaType, p.s, pos)>>)]
         ELSE [p EXCEPT !.state = STATE_INVALID]
    [] p.state = STATE_PARAMETER_QUOTED ->
         IF ~(permissive /\ chr = EOF)
              /\ (chr # "\"" \/ CharAt(mediaType, pos - 1) = "\\")
           THEN p
           ELSE [p EXCEPT
                   !.state = STATE_SUBTYPE_END,
                   !.params =
                     Append(@, <<p.t, Unescape(Slice(mediaType, p.s, pos))>>)]
    [] OTHER -> \* STATE_INVALID
         [p EXCEPT !.pos = Infinity]

\* for (...; pos <= mediaType.length; pos++)
RECURSIVE ParseLoop(_, _, _)
ParseLoop(mediaType, permissive, p) ==
  IF p.pos <= Len(mediaType)
    THEN LET n == ParseSwitch(mediaType, permissive, p)
         IN ParseLoop(mediaType, permissive,
                      [n EXCEPT !.pos = IF @ = Infinity THEN @ ELSE @ + 1])
    ELSE p

\* Mutation: the update expression of the loop adds two.
ParseIterateByTwo(mediaType, permissive, p) ==
  [ParseSwitch(mediaType, permissive, p) EXCEPT
     !.pos = IF @ = Infinity THEN @ ELSE @ + 2]

\* The body of parseMediaType's loop and its update expression pos++, which
\* leaves Infinity as it is.
ParseIterate(mediaType, permissive, p) ==
  [ParseSwitch(mediaType, permissive, p) EXCEPT
     !.pos = IF @ = Infinity THEN @ ELSE @ + 1]

\* Mutation: the loop takes the permissive branches in strict mode too.
ParseEndAlwaysLax(mediaType, permissive) == ParseLoop(mediaType, TRUE, ParseStart)

\* The scanner's locals when the for loop ends.
ParseEnd(mediaType, permissive) == ParseLoop(mediaType, permissive, ParseStart)

\* Mutation: in permissive mode a scan that ends in STATE_PARAMS_START is
\* rejected.
ParseRejectsLaxInParamsStart(p, mediaType, permissive) ==
  \/ p.type = <<>>
  \/ p.subtype = <<>>
  \/ (~permissive /\ p.pos # Len(mediaType) + 1)
  \/ (p.state # STATE_SUBTYPE_END /\ (permissive \/ p.state # STATE_PARAMS_START))

\* Mutation: the state the loop ended in is not looked at.
ParseRejectsWithoutState(p, mediaType, permissive) ==
  \/ p.type = <<>>
  \/ p.subtype = <<>>
  \/ (~permissive /\ p.pos # Len(mediaType) + 1)

\* Mutation: a scan that ends in STATE_PARAMS_START is rejected.
ParseRejectsInParamsStart(p, mediaType, permissive) ==
  \/ p.type = <<>>
  \/ p.subtype = <<>>
  \/ (~permissive /\ p.pos # Len(mediaType) + 1)
  \/ p.state # STATE_SUBTYPE_END

\* The test after the loop, on the scanner's locals p: true when
\* MediaTypeParsingError is thrown.
ParseRejects(p, mediaType, permissive) ==
  \/ p.type = <<>>
  \/ p.subtype = <<>>
  \/ (~permissive /\ p.pos # Len(mediaType) + 1)
  \/ (p.state # STATE_SUBTYPE_END /\ p.state # STATE_PARAMS_START)

\* parseMediaType(mediaType, permissive) throws MediaTypeParsingError.
ParseThrows(mediaType, permissive) ==
  ParseRejects(ParseEnd(mediaType, permissive), mediaType, permissive)

\* The tuple built from the scanner's locals p: element 0, the parameter
\* list, and the type and subtype getters.
MediaTypeOf(p) ==
  [mt |-> p.type \o <<"/">> \o p.subtype,
   params |-> p.params,
   type |-> p.type,
   subtype |-> p.subtype]

\* What parseMediaType returns when it does not throw.
parseMediaType(mediaType, permissive) ==
  MediaTypeOf(ParseEnd(mediaType, permissive))

\* What parseMediaType(mediaType, permissive) yields, given the scanner's
\* locals p at the end of the loop: the thrown error or the returned tuple.
ParseOutcome(p, mediaType, permissive) ==
  IF ParseRejects(p, mediaType, permissive)
    THEN [kind |-> "throw", mt |-> <<>>, params |-> <<>>, type |-> <<>>,
          subtype |-> <<>>]
    ELSE [kind |-> "value"] @@ MediaTypeOf(p)

(***************************************************************************)
(* parseAcceptHeader                                                       *)
(***************************************************************************)
TokStart ==
  [state |-> STATE_INITIAL, pos |-> 0, s |-> 0, te |-> 0, pe |-> 0,
   types |-> <<>>]

\* Mutation: reset() puts the entry at the front of the list.
resetUnshifts(accept, typesOnly, k) ==
  [k EXCEPT !.state = STATE_INITIAL,
            !.types = <<Slice(accept, k.s, IF typesOnly THEN k.te ELSE k.pe)>>
                        \o @]

\* Mutation: reset() pushes the parameters of the entry only.
resetPushesParameters(accept, typesOnly, k) ==
  [k EXCEPT !.state = STATE_INITIAL,
            !.types = Append(@, Slice(accept, k.te,
                                      IF typesOnly THEN k.te ELSE k.pe))]

\* reset(): state = STATE_INITIAL; types.push(accept.slice(s, typesOnly ? te : pe))
reset(accept, typesOnly, k) ==
  [k EXCEPT !.state = STATE_INITIAL,
            !.types = Append(@, Slice(accept, k.s,
                                      IF typesOnly THEN k.te ELSE k.pe))]

TokSwitch(accept, typesOnly, permissive, k) ==
  LET pos == k.pos
      chr == CharAt(accept, pos)
  IN
  CASE k.state = STATE_INITIAL ->
         IF isOWS(chr) \/ chr = "," THEN k
         ELSE IF isToken(chr) THEN [k EXCEPT !.state = STATE_TYPE, !.s = pos]
         ELSE [k EXCEPT !.state = STATE_INVALID]
    [] k.state = STATE_TYPE ->
         IF isToken(chr) THEN k
         ELSE IF chr = "/" THEN [k EXCEPT !.state = STATE_SUBTYPE_START]
         ELSE IF chr = "," THEN [k EXCEPT !.state = STATE_INITIAL]
         ELSE [k EXCEPT !.state = STATE_INVALID]
    [] k.state = STATE_SUBTYPE_START ->
         IF isToken(chr) THEN [k EXCEPT !.state = STATE_SUBTYPE]
         ELSE IF permissive /\ isOWS(chr) THEN k
         ELSE IF chr = "," THEN [k EXCEPT !.state = STATE_INITIAL]
         ELSE [k EXCEPT !.state = STATE_INVALID]
    [] k.state = STATE_SUBTYPE ->
         IF isToken(chr) THEN k
         ELSE IF chr = "," \/ chr = EOF
           THEN reset(accept, typesOnly, [k EXCEPT !.te = pos, !.pe = pos])
         ELSE IF chr = ";"
           THEN [k EXCEPT !.te = pos, !.pe = pos, !.state = STATE_PARAMS_START]
         ELSE IF isOWS(chr)
           THEN [k EXCEPT !.te = pos, !.pe = pos, !.state = STATE_SUBTYPE_END]
         ELSE [k EXCEPT !.state = STATE_INVALID]
    [] k.state = STATE_SUBTYPE_END ->
         IF chr = "," \/ chr = EOF THEN reset(accept, typesOnly, k)
         ELSE IF chr = ";" THEN [k EXCEPT !.state = STATE_PARAMS_START]
         ELSE IF isOWS(chr) THEN k
         ELSE [k EXCEPT !.state = STATE_INVALID]
    [] k.state = STATE_PARAMS_START ->
         IF isToken(chr) THEN [k EXCEPT !.state = STATE_PARAMETER_NAME]
         ELSE IF isOWS(chr) \/ chr = ";" THEN k
         ELSE IF chr = "," \/ chr = EOF THEN reset(accept, typesOnly, k)
         ELSE [k EXCEPT !.state = STATE_INVALID]
    [] k.state = STATE_PARAMETER_NAME ->
         IF isToken(chr) THEN k
         ELSE IF chr = "=" THEN [k EXCEPT !.state = STATE_PARAMETER_VALUE_START]
         ELSE IF permissive /\ isOWS(chr)
           THEN [k EXCEPT !.pe = pos, !.state = STATE_PARAMETER_NAME_END]
         ELSE IF permissive /\ chr = ";"
           THEN [k EXCEPT !.state = STATE_PARAMS_START]
         ELSE IF permissive /\ (chr = "," \/ chr = EOF)
           THEN reset(accept, typesOnly, k)
         ELSE [k EXCEPT !.state = STATE_INVALID]
    [] k.state = STATE_PARAMETER_NAME_END ->
         IF isOWS(chr) THEN k
         ELSE IF chr = ";" THEN [k EXCEPT !.state = STATE_PARAMS_START]
         ELSE IF chr = "="
           THEN [k EXCEPT !.pe = IF permissive THEN pos + 1 ELSE @,
                          !.state = STATE_PARAMETER_VALUE_START]
         ELSE IF chr = "," \/ chr = EOF THEN reset(accept, typesOnly, k)
         ELSE k
    [] k.state = STATE_PARAMETER_VALUE_START ->
         IF isToken(chr) THEN [k EXCEPT !.state = STATE_PARAMETER_VALUE]
         ELSE IF chr = "\"" THEN [k EXCEPT !.state = STATE_PARAMETER_QUOTED]
         ELSE IF permissive /\ isOWS(chr) THEN k
         ELSE IF permissive /\ chr = ";"
           THEN [k EXCEPT !.state = STATE_PARAMS_START]
         ELSE IF permissive /\ (chr = "," \/ chr = EOF)
           THEN reset(accept, typesOnly, [k EXCEPT !.pe = pos])
         ELSE [k EXCEPT !.state = STATE_INVALID]
    [] k.state = STATE_PARAMETER_VALUE ->
         IF isToken(chr) THEN k
         ELSE IF chr = ";"
           THEN [k EXCEPT !.pe = pos, !.state = STATE_PARAMS_START]
         ELSE IF chr = "," \/ chr = EOF
           THEN reset(accept, typesOnly, [k EXCEPT !.pe = pos])
         ELSE IF isOWS(chr)
           THEN [k EXCEPT !.pe = pos, !.state = STATE_SUBTYPE_END]
         ELSE [k EXCEPT !.state = STATE_INVALID]
    [] k.state = STATE_PARAMETER_QUOTED ->
         IF permissive /\ chr = EOF
           THEN reset(accept, typesOnly, [k EXCEPT !.pe = pos])
         ELSE IF chr # "\"" \/ CharAt(accept, pos - 1) = "\\" THEN k
         ELSE [k EXCEPT !.state = STATE_SUBTYPE_END, !.pe = pos + 1]
    [] OTHER -> \* STATE_INVALID
         IF chr = "," THEN [k EXCEPT !.state = STATE_INITIAL] ELSE k

\* for (; pos <= accept.length; pos++)
RECURSIVE TokLoop(_, _, _, _)
TokLoop(accept, typesOnly, permissive, k) ==
  IF k.pos <= Len(accept)
    THEN LET n == TokSwitch(accept, typesOnly, permissive, k)
         IN TokLoop(accept, typesOnly, permissive, [n EXCEPT !.pos = @ + 1])
    ELSE k

\* The body of parseAcceptHeader's loop and its update expression pos++.
TokIterate(accept, typesOnly, permissive, k) ==
  [TokSwitch(accept, typesOnly, permissive, k) EXCEPT !.pos = @ + 1]

\* Mutation: the scan is strict whatever its permissive argument.
parseAcceptHeaderAlwaysStrict(accept, typesOnly, permissive) ==
  TokLoop(accept, typesOnly, FALSE, TokStart).types

parseAcceptHeader(accept, typesOnly, permissive) ==
  TokLoop(accept, typesOnly, permissive, TokStart).types

(***************************************************************************)
(* normaliseMediaType                                                      *)
(***************************************************************************)
\* Mutation: the comparator never answers 0; equal names count as out of
\* order.
CompareNamesNeverEqual(a, b) ==
  IF StrLess(a[1], b[1]) THEN -1 ELSE 1

\* Mutation: the comparator puts the greater name first.
CompareNamesDescending(a, b) ==
  IF StrLess(a[1], b[1]) THEN 1 ELSE IF StrLess(b[1], a[1]) THEN -1 ELSE 0

\* The comparator of the parameter sort: a[0] > b[0] ? 1 : a[0] < b[0] ? -1 : 0
CompareNames(a, b) ==
  IF StrLess(b[1], a[1]) THEN 1 ELSE IF StrLess(a[1], b[1]) THEN -1 ELSE 0

\* Array.prototype.sort is stable: x goes before the first element that the
\* comparator puts after it.
RECURSIVE InsertParam(_, _)
InsertParam(x, sorted) ==
  IF sorted = <<>> THEN <<x>>
  ELSE IF CompareNames(Head(sorted), x) > 0 THEN <<x>> \o sorted
  ELSE <<Head(sorted)>> \o InsertParam(x, Tail(sorted))

RECURSIVE SortParams(_)
SortParams(ps) ==
  IF ps = <<>> THEN <<>>
  ELSE InsertParam(ps[Len(ps)], SortParams(SubSeq(ps, 1, Len(ps) - 1)))

normaliseMediaType(mediaType) ==
  [mt |-> toLowerCase(mediaType.mt),
   params |-> SortParams([i \in 1..Len(mediaType.params) |->
                <<toLowerCase(mediaType.params[i][1]), mediaType.params[i][2]>>]),
   type |-> toLowerCase(mediaType.type),
   subtype |-> toLowerCase(mediaType.subtype),
   original |-> mediaType]

(***************************************************************************)
(* findQ                                                                   *)
(***************************************************************************)
DEFAULT_Q == 1000
MAX_Q == 1000
MIN_Q == 0

\* /^(?:(?:0(?:\.\d{1,3})?)|(?:1(?:\.0{1,3})?))$/
QVALUE_REGEX(v) ==
  /\ Len(v) >= 1
  /\ \/ /\ v[1] = "0"
        /\ \/ Len(v) = 1
           \/ /\ Len(v) \in 3..5
              /\ v[2] = "."
              /\ \A i \in 3..Len(v) : v[i] \in DIGIT
     \/ /\ v[1] = "1"
        /\ \/ Len(v) = 1
           \/ /\ Len(v) \in 3..5
              /\ v[2] = "."
              /\ \A i \in 3..Len(v) : v[i] = "0"

\* qParam[1].replace('.', ''): the first '.' only
RECURSIVE RemoveFirstDot(_)
RemoveFirstDot(v) ==
  IF v = <<>> THEN <<>>
  ELSE IF Head(v) = "." THEN Tail(v)
  ELSE <<Head(v)>> \o RemoveFirstDot(Tail(v))

\* Mutation: the zeros are put before the digits.
padStart4(d) == IF Len(d) >= 4 THEN d ELSE [i \in 1..(4 - Len(d)) |-> "0"] \o d

\* digits.padEnd(4, '0')
padEnd4(d) == IF Len(d) >= 4 THEN d ELSE d \o [i \in 1..(4 - Len(d)) |-> "0"]

\* parseInt(normalised, 10) on a string of decimal digits
RECURSIVE parseInt(_)
parseInt(d) ==
  IF d = <<>> THEN 0
  ELSE 10 * parseInt(SubSeq(d, 1, Len(d) - 1)) + (Code(d[Len(d)]) - 48)

Min2(a, b) == IF a < b THEN a ELSE b

Max2(a, b) == IF a > b THEN a ELSE b

\* Mutation: the last parameter named q is the one found.
FindQParamLast(params) ==
  IF \E i \in 1..Len(params) : params[i][1] = <<"q">>
    THEN CHOOSE i \in 1..Len(params) :
           /\ params[i][1] = <<"q">>
           /\ \A j \in (i + 1)..Len(params) : params[j][1] # <<"q">>
    ELSE 0

\* mediaType[1].find((p) => p[0] === 'q'): its index, 0 when there is none
FindQParam(params) ==
  IF \E i \in 1..Len(params) : params[i][1] = <<"q">>
    THEN CHOOSE i \in 1..Len(params) :
           /\ params[i][1] = <<"q">>
           /\ \A j \in 1..(i - 1) : params[j][1] # <<"q">>
    ELSE 0

\* Mutation: a weight of 0 is taken for a failed conversion.
findQZeroIsDefault(mediaType) ==
  LET i == FindQParam(mediaType.params)
  IN IF i = 0 \/ ~QVALUE_REGEX(mediaType.params[i][2]) THEN DEFAULT_Q
     ELSE IF parseInt(padEnd4(RemoveFirstDot(mediaType.params[i][2]))) = 0
       THEN DEFAULT_Q
     ELSE Max2(Min2(MAX_Q,
                    parseInt(padEnd4(RemoveFirstDot(mediaType.params[i][2])))),
               MIN_Q)

findQ(mediaType) ==
  LET i == FindQParam(mediaType.params)
  IN IF i = 0 \/ ~QVALUE_REGEX(mediaType.params[i][2]) THEN DEFAULT_Q
     ELSE Max2(Min2(MAX_Q,
                    parseInt(padEnd4(RemoveFirstDot(mediaType.params[i][2])))),
               MIN_Q)

(***************************************************************************)
(* findOverlappingParams                                                   *)
(***************************************************************************)
\* Mutation: the q parameter is counted like any other.
findOverlappingParamsWithQ(a, b) ==
  Len(SelectSeq(a.params,
        LAMBDA aparam :
          \E j \in 1..Len(b.params) :
            aparam[1] = b.params[j][1] /\ aparam[2] = b.params[j][2]))

\* The length of the filtered list: the parameters of a, other than q, of
\* which b has a parameter of equal name and equal value.
findOverlappingParams(a, b) ==
  Len(SelectSeq(a.params,
        LAMBDA aparam :
          /\ aparam[1] # <<"q">>
          /\ \E j \in 1..Len(b.params) :
               aparam[1] = b.params[j][1] /\ aparam[2] = b.params[j][2]))

(***************************************************************************)
(* negotiateMediaTypeFactory: the steps of the returned closure            *)
(***************************************************************************)
\* parseAcceptHeader(accept, permissive, false)
AcceptTokens(accept, permissive) == parseAcceptHeader(accept, permissive, FALSE)

\* Some parseMediaType(type, permissive) of the .map callback throws.
MapThrows(tokens, permissive) ==
  \E i \in 1..Len(tokens) : ParseThrows(tokens[i], permissive)

\* normaliseMediaType(parseMediaType(type, permissive)) for the i-th token;
\* id stands for the identity of the object, the key of qMap and map.
Normalised(tokens, permissive, i) ==
  [id |-> i] @@ normaliseMediaType(parseMediaType(tokens[i], permissive))

\* The normalised media types the .map callback computes, one per token.
NormalisedAll(tokens, permissive) ==
  [i \in 1..Len(tokens) |-> Normalised(tokens, permissive, i)]

\* .map(...).filter(Boolean): the entries whose q is not 0, in token order
MapFilter(all) == SelectSeq(all, LAMBDA e : findQ(e) # 0)

\* qMap after the .map callback ran on every token
QMapOf(all) ==
  [i \in {j \in 1..Len(all) : findQ(all[j]) # 0} |-> findQ(all[i])]

\* (a, b) => qb - qa
CompareQ(a, b, q) == q[b.id] - q[a.id]

RECURSIVE InsertByQ(_, _, _)
InsertByQ(x, sorted, q) ==
  IF sorted = <<>> THEN <<x>>
  ELSE IF CompareQ(Head(sorted), x, q) > 0 THEN <<x>> \o sorted
  ELSE <<Head(sorted)>> \o InsertByQ(x, Tail(sorted), q)

RECURSIVE SortByQ(_, _)
SortByQ(list, q) ==
  IF list = <<>> THEN <<>>
  ELSE InsertByQ(list[Len(list)], SortByQ(SubSeq(list, 1, Len(list) - 1), q), q)

\* Mutation: the type/* branch is missing.
OverlapsWithoutSubtypeWildcard(acceptableMediaType, availableMediaType) ==
  \/ acceptableMediaType.mt = availableMediaType.mt
  \/ /\ acceptableMediaType.type = <<"*">>
     /\ acceptableMediaType.subtype = <<"*">>

\* The callback of parsedAvailableTypes.some(...)
Overlaps(acceptableMediaType, availableMediaType) ==
  \/ acceptableMediaType.mt = availableMediaType.mt
  \/ /\ acceptableMediaType.subtype = <<"*">>
     /\ acceptableMediaType.type = availableMediaType.type
  \/ /\ acceptableMediaType.type = <<"*">>
     /\ acceptableMediaType.subtype = <<"*">>

\* Mutation: the last overlapping available type is recorded, not the first.
SomeIndexLast(acceptableMediaType, available) ==
  IF \E i \in 1..Len(available) : Overlaps(acceptableMediaType, available[i])
    THEN CHOOSE i \in 1..Len(available) :
           /\ Overlaps(acceptableMediaType, available[i])
           /\ \A j \in (i + 1)..Len(available) :
                ~Overlaps(acceptableMediaType, available[j])
    ELSE 0

\* The index of the available type at which .some(...) stops and which
\* map.set records; 0 when .some(...) is false.
SomeIndex(acceptableMediaType, available) ==
  IF \E i \in 1..Len(available) : Overlaps(acceptableMediaType, available[i])
    THEN CHOOSE i \in 1..Len(available) :
           /\ Overlaps(acceptableMediaType, available[i])
           /\ \A j \in 1..(i - 1) : ~Overlaps(acceptableMediaType, available[j])
    ELSE 0

\* First pass: parsedAcceptableTypes.filter(...)
FirstPass(acceptable, available) ==
  SelectSeq(acceptable, LAMBDA e : SomeIndex(e, available) # 0)

\* map after the first pass
MapOf(acceptable, available) ==
  [i \in {acceptable[k].id : k \in {n \in 1..Len(acceptable) :
                                     SomeIndex(acceptable[n], available) # 0}}
     |-> SomeIndex(CHOOSE e \in {acceptable[k] : k \in 1..Len(acceptable)} :
                     e.id = i, available)]

\* Mutation: the list is not cut at the first weight drop.
SecondPassKeepsAll(overlapping, q) == overlapping

\* Second pass: splice at the first entry whose q differs from the first's
SecondPass(overlapping, q) ==
  IF \E i \in 2..Len(overlapping) : q[overlapping[i].id] # q[overlapping[1].id]
    THEN SubSeq(overlapping, 1,
           (CHOOSE i \in 2..Len(overlapping) :
              /\ q[overlapping[i].id] # q[overlapping[1].id]
              /\ \A j \in 2..(i - 1) :
                   q[overlapping[j].id] = q[overlapping[1].id]) - 1)
    ELSE overlapping

\* Mutation: the comparator skips the wildcard tests.
CompareRankWithoutSpecificity(a, b, m, available) ==
  LET overlappingA == findOverlappingParams(a, available[m[a.id]])
      overlappingB == findOverlappingParams(b, available[m[b.id]])
  IN IF overlappingB - overlappingA # 0 THEN overlappingB - overlappingA
     ELSE m[a.id] - m[b.id]

\* Mutation: the comparator ends without the server-order test.
CompareRankWithoutServerOrder(a, b, m, available) ==
  IF a.type = <<"*">> /\ b.type # <<"*">> THEN 1
  ELSE IF a.type # <<"*">> /\ b.type = <<"*">> THEN -1
  ELSE IF a.subtype = <<"*">> /\ b.subtype # <<"*">> THEN 1
  ELSE IF a.subtype # <<"*">> /\ b.subtype = <<"*">> THEN -1
  ELSE findOverlappingParams(b, available[m[b.id]])
         - findOverlappingParams(a, available[m[a.id]])

\* The comparator of overlappingTypes.sort(...)
CompareRank(a, b, m, available) ==
  IF a.type = <<"*">> /\ b.type # <<"*">> THEN 1
  ELSE IF a.type # <<"*">> /\ b.type = <<"*">> THEN -1
  ELSE IF a.subtype = <<"*">> /\ b.subtype # <<"*">> THEN 1
  ELSE IF a.subtype # <<"*">> /\ b.subtype = <<"*">> THEN -1
  ELSE LET overlappingA == findOverlappingParams(a, available[m[a.id]])
           overlappingB == findOverlappingParams(b, available[m[b.id]])
       IN IF overlappingB - overlappingA # 0 THEN overlappingB - overlappingA
          ELSE m[a.id] - m[b.id]

RECURSIVE InsertByRank(_, _, _, _)
InsertByRank(x, sorted, m, available) ==
  IF sorted = <<>> THEN <<x>>
  ELSE IF CompareRank(Head(sorted), x, m, available) > 0 THEN <<x>> \o sorted
  ELSE <<Head(sorted)>> \o InsertByRank(x, Tail(sorted), m, available)

RECURSIVE SortByRank(_, _, _)
SortByRank(list, m, available) ==
  IF list = <<>> THEN <<>>
  ELSE InsertByRank(list[Len(list)],
                    SortByRank(SubSeq(list, 1, Len(list) - 1), m, available),
                    m, available)

\* Mutation: the string is returned in lower case instead of as given.
OriginalOfLowerCased(highestRanked, m, originals) ==
  toLowerCase(originals[m[highestRanked.id]])

\* mapToOriginal.get(map.get(highestRanked))
OriginalOf(highestRanked, m, originals) == originals[m[highestRanked.id]]

(***************************************************************************)
(* Values a call can yield.                                                *)
(***************************************************************************)
NoResult == [kind |-> "none", str |-> <<>>]
Null == [kind |-> "null", str |-> <<>>]
Thrown == [kind |-> "throw", str |-> <<>>]
Str(s) == [kind |-> "string", str |-> s]
Undefined == [kind |-> "undefined", str |-> <<>>]

(***************************************************************************)
(* Inputs of the model.                                                    *)
(***************************************************************************)
\* Strings a server passes as available types.
AvailPool ==
  { <<"A", "/", "b">>,
    <<"c", "/", "d">>,
    <<" ", "a", "/", "c">>,
    <<"a", "/", "b", ";", "p", "=", "x">>,
    <<"c", "/", "d", ";", "q", "=", "1">>,
    <<"a", "@", "b">>,
    <<"a", "/", "b", ";", "p">> }

AvailLists == UNION {[1..n -> AvailPool] : n \in 0..MaxAvail}

\* Media ranges a client puts in an Accept header.
RangePool ==
  { <<"a", "/", "b">>,
    <<"A", "/", "B", ";", "P", "=", "x">>,
    <<"a", "/", "b", ";", "p", "=", "X">>,
    <<"a", "/", "*">>,
    <<"*", "/", "*">>,
    <<"c", "/", "d">>,
    <<"a", "/", "b", ";", "q", "=", "0">>,
    <<"c", "/", "d", ";", "q", "=", "1">>,
    <<" ", "c", "/", "d", " ", ";", " ", "q", "=", "0", ".", "5", " ">>,
    <<"*", "/", "*", ";", "q", "=", "0", ".", "5">>,
    <<"a", "@", "b">>,
    <<"c", "/", "d", ";", "f">>,
    <<"a", "/", "c", ";", "t", "=", "\"", "x">>,
    <<"a", "/", "b", ";", "p", "=">>,
    <<"a", "/", "b", ";", "p", " ", "=", "x">> }

\* The header made of the ranges, joined by commas.
RECURSIVE Join(_)
Join(rs) ==
  IF rs = <<>> THEN <<>>
  ELSE IF Len(rs) = 1 THEN rs[1]
  ELSE rs[1] \o <<",">> \o Join(Tail(rs))

(***************************************************************************)
(* State.                                                                  *)
(***************************************************************************)
VARIABLES
  pc,                    \* "new", "ready", "returned" or "threw"
  availableMediaTypes,   \* the caller's array
  negotiator,            \* "none", "null" (() => null) or "closure"
  parsedAvailableTypes,  \* captured by the closure
  mapToOriginal,         \* captured by the closure; keyed like parsedAvailableTypes
  failedAt,              \* the element at which the factory threw; 0 if it returned
  calls,                 \* how many calls the negotiator has answered
  ranges,                \* the media ranges of the header the client builds
  accept,                \* the argument of the last call
  permissive,            \* the argument of the last call
  tokens,                \* what parseAcceptHeader returned in the last call
  parsedAcceptableTypes, \* locals of the last call, as they were at its end
  qMap,
  map,
  overlappingTypes,
  result,                \* what the last call yielded
  pieces,                \* the fragments of the string handed to parseMediaType
  mode,                  \* the permissive argument of that parse
  parsed,                \* what that parse yielded
  fragments,             \* the comma-separated parts of the string handed to parseAcceptHeader
  typesOnly,             \* the typesOnly argument of that call
  lax,                   \* the permissive argument of that call
  scanned,               \* the call has returned
  types,                 \* what it returned
  source,                \* the MediaType handed to normaliseMediaType
  stage,                 \* "build", "normalised", "original again" or "result again"
  normalised,            \* what normaliseMediaType returned for source
  again,                 \* what it returned for that result or for its original
  qtext,                 \* the q value a client writes
  weighed,               \* the normalised media type handed to findQ
  weight,                \* what findQ returned for it; -1 before the call
  scanPieces,            \* the fragments of the string a scan runs over
  scanOf,                \* the function whose loop is running, "none" before
  scanLoose,             \* its permissive argument
  scanBare,              \* its typesOnly argument (parseAcceptHeader)
  cursor,                \* the loop's variables: state, pos, s, ...
  visits,                \* the values of pos the loop body has run with
  halted,                \* the loop has been left
  verdict                \* "value" or "throw" (parseMediaType), "list"

vars ==
  <<pc, availableMediaTypes, negotiator, parsedAvailableTypes, mapToOriginal,
    failedAt, calls, ranges, accept, permissive, tokens, parsedAcceptableTypes, qMap, map,
    overlappingTypes, result, pieces, mode, parsed, fragments, typesOnly, lax,
    scanned, types, source, stage, normalised, again, qtext, weighed, weight,
    scanPieces, scanOf, scanLoose, scanBare, cursor, visits, halted, verdict>>

\* The negotiator and its calls.
negotiationVars ==
  <<pc, availableMediaTypes, negotiator, parsedAvailableTypes, mapToOriginal,
    failedAt, calls, ranges, accept, permissive, tokens, parsedAcceptableTypes,
    qMap, map, overlappingTypes, result>>

\* A direct use of parseMediaType.
parserVars == <<pieces, mode, parsed>>

\* A direct use of parseAcceptHeader.
tokenizerVars == <<fragments, typesOnly, lax, scanned, types>>

\* The loops of parseMediaType and parseAcceptHeader, one iteration at a time.
scanVars ==
  <<scanPieces, scanOf, scanLoose, scanBare, cursor, visits, halted, verdict>>

\* A direct use of findQ.
weightVars == <<qtext, weighed, weight>>

\* A direct use of normaliseMediaType.
normaliserVars == <<source, stage, normalised, again>>

\* The MediaType before the caller has filled it in.
NoMediaType ==
  [mt |-> <<>>, params |-> <<>>, type |-> <<>>, subtype |-> <<>>]

\* No parse has been made.
NotParsed ==
  [kind |-> "none", mt |-> <<>>, params |-> <<>>, type |-> <<>>, subtype |-> <<>>]

closureVars ==
  <<availableMediaTypes, negotiator, parsedAvailableTypes, mapToOriginal, failedAt>>

NoAccept == [given |-> FALSE, str |-> <<>>]

Init ==
  /\ pc = "new"
  /\ availableMediaTypes = <<>>
  /\ negotiator = "none"
  /\ parsedAvailableTypes = <<>>
  /\ mapToOriginal = <<>>
  /\ failedAt = 0
  /\ calls = 0
  /\ ranges = <<>>
  /\ accept = NoAccept
  /\ permissive = FALSE
  /\ tokens = <<>>
  /\ parsedAcceptableTypes = <<>>
  /\ qMap = <<>>
  /\ map = <<>>
  /\ overlappingTypes = <<>>
  /\ result = NoResult
  /\ pieces = <<>>
  /\ mode = FALSE
  /\ parsed = NotParsed
  /\ fragments = <<>>
  /\ typesOnly = FALSE
  /\ lax = FALSE
  /\ scanned = FALSE
  /\ types = <<>>
  /\ source = NoMediaType
  /\ stage = "build"
  /\ normalised = normaliseMediaType(NoMediaType)
  /\ again = normaliseMediaType(NoMediaType)
  /\ qtext = <<>>
  /\ weighed = normaliseMediaType(NoMediaType)
  /\ weight = -1
  /\ scanPieces = <<>>
  /\ scanOf = "none"
  /\ scanLoose = FALSE
  /\ scanBare = FALSE
  /\ cursor = ParseStart
  /\ visits = <<>>
  /\ halted = FALSE
  /\ verdict = "none"

\* Mutation: the factory parses the available types in permissive mode.
AvailableThrowsPermissive(mediaType) == ParseThrows(mediaType, TRUE)

\* parseMediaType(mediaType) in the factory's .map callback throws; the
\* second argument is left out, so the parse is strict.
AvailableThrows(mediaType) == ParseThrows(mediaType, FALSE)

\* availableMediaTypes.map(...) from element i on: the element at which the
\* callback throws, which ends the map, or 0 when it reaches the end.
RECURSIVE MapAvailableThrowsAt(_, _)
MapAvailableThrowsAt(avail, i) ==
  IF i > Len(avail) THEN 0
  ELSE IF AvailableThrows(avail[i]) THEN i
  ELSE MapAvailableThrowsAt(avail, i + 1)

\* negotiateMediaTypeFactory(availableMediaTypes)
CreateNegotiator ==
  /\ pc = "new"
  /\ \E avail \in AvailLists :
       /\ availableMediaTypes' = avail
       /\ IF Len(avail) = 0
            THEN /\ negotiator' = "null"
                 /\ parsedAvailableTypes' = <<>>
                 /\ mapToOriginal' = <<>>
                 /\ failedAt' = 0
                 /\ pc' = "ready"
            ELSE IF MapAvailableThrowsAt(avail, 1) # 0
              THEN /\ negotiator' = "none"
                   /\ parsedAvailableTypes' = <<>>
                   /\ mapToOriginal' = <<>>
                   /\ failedAt' = MapAvailableThrowsAt(avail, 1)
                   /\ pc' = "threw"
              ELSE /\ negotiator' = "closure"
                   /\ parsedAvailableTypes' =
                        [i \in 1..Len(avail) |->
                           normaliseMediaType(parseMediaType(avail[i], FALSE))]
                   /\ mapToOriginal' = avail
                   /\ failedAt' = 0
                   /\ pc' = "ready"
  /\ UNCHANGED <<calls, ranges, accept, permissive, tokens,
                 parsedAcceptableTypes, qMap, map, overlappingTypes, result>>
  /\ UNCHANGED parserVars
  /\ UNCHANGED tokenizerVars
  /\ UNCHANGED normaliserVars
  /\ UNCHANGED weightVars
  /\ UNCHANGED scanVars

\* The client adds a media range to the header it is going to send.
AddRange ==
  /\ pc = "ready"
  /\ Len(ranges) < MaxRanges
  /\ \E r \in RangePool : ranges' = Append(ranges, r)
  /\ UNCHANGED <<pc, closureVars, calls, accept, permissive, tokens,
                 parsedAcceptableTypes, qMap, map, overlappingTypes, result>>
  /\ UNCHANGED parserVars
  /\ UNCHANGED tokenizerVars
  /\ UNCHANGED normaliserVars
  /\ UNCHANGED weightVars
  /\ UNCHANGED scanVars

\* What a call leaves when the closure returns before its locals exist.
NoLocals(res) ==
  [tokens |-> <<>>, parsedAcceptableTypes |-> <<>>, qMap |-> <<>>,
   map |-> <<>>, overlappingTypes |-> <<>>, result |-> res]

\* Mutation: only an absent header takes the early return.
FalsyAbsentOnly(acc) == ~acc.given

\* if (!accept): undefined, null and '' are falsy
Falsy(acc) == ~acc.given \/ acc.str = <<>>

\* The end of the closure: the second pass, the sort and the return.
AfterFirstPass(toks, q, acceptable, m, first, available, originals) ==
  IF Len(first) = 0
    THEN [tokens |-> toks, parsedAcceptableTypes |-> acceptable, qMap |-> q,
          map |-> m, overlappingTypes |-> first, result |-> Null]
    ELSE [tokens |-> toks, parsedAcceptableTypes |-> acceptable, qMap |-> q,
          map |-> m,
          overlappingTypes |-> SortByRank(SecondPass(first, q), m, available),
          result |-> Str(OriginalOf(
                       SortByRank(SecondPass(first, q), m, available)[1],
                       m, originals))]

\* The closure from the first pass on.
AfterSort(toks, q, acceptable, available, originals) ==
  AfterFirstPass(toks, q, acceptable, MapOf(acceptable, available),
                 FirstPass(acceptable, available), available, originals)

\* The closure from .filter(Boolean) on, given the mapped tokens.
AfterMap(toks, all, available, originals) ==
  AfterSort(toks, QMapOf(all), SortByQ(MapFilter(all), QMapOf(all)),
            available, originals)

\* The closure from .map(...) on, given the tokens.
AfterTokenize(toks, p, available, originals) ==
  IF MapThrows(toks, p)
    THEN [NoLocals(Thrown) EXCEPT !.tokens = toks]
    ELSE AfterMap(toks, NormalisedAll(toks, p), available, originals)

\* The body of the closure after the `if (!accept)` test: the call's locals
\* at its end, and what it yields.
NegotiateBody(a, p, available, originals) ==
  AfterTokenize(AcceptTokens(a, p), p, available, originals)

\* Mutation: the negotiator of an empty list answers with the empty string.
NullNegotiatorReturnsEmptyString == NoLocals(Str(<<>>))

\* () => null, the negotiator of an empty list, applied to any arguments.
NullNegotiator == NoLocals(Null)

\* availableMediaTypes[0]: undefined when the array has no element
ElementZero(availableArray) ==
  IF Len(availableArray) = 0 THEN Undefined ELSE Str(availableArray[1])

\* The closure the factory returned, applied to (accept, permissive).
Closure(kind, acc, p, availableArray, available, originals) ==
  IF kind = "null" THEN NullNegotiator
  ELSE IF Falsy(acc) THEN NoLocals(ElementZero(availableArray))
  ELSE NegotiateBody(acc.str, p, available, originals)

\* The call ends, leaving out.
Return(out) ==
  /\ tokens' = out.tokens
  /\ parsedAcceptableTypes' = out.parsedAcceptableTypes
  /\ qMap' = out.qMap
  /\ map' = out.map
  /\ overlappingTypes' = out.overlappingTypes
  /\ result' = out.result

\* Mutation: a call leaves the captured list in reverse order.
CapturedReversedByCall(available) ==
  [i \in 1..Len(available) |-> available[Len(available) + 1 - i]]

\* The captured parsedAvailableTypes after a call: the closure reads it
\* (.some and .indexOf) and never writes to it.
CapturedAfterCall(available) == available

\* negotiate(accept, permissive) on what the factory returned; the header is
\* absent (undefined or null) or the string the client built.
Negotiate ==
  /\ pc = "ready"
  /\ \E given \in BOOLEAN, p \in BOOLEAN :
       /\ ~given => ranges = <<>>
       /\ accept' = [given |-> given, str |-> Join(ranges)]
       /\ permissive' = p
       /\ Return(Closure(negotiator, [given |-> given, str |-> Join(ranges)], p,
                         availableMediaTypes, parsedAvailableTypes,
                         mapToOriginal))
  /\ pc' = "returned"
  /\ calls' = calls + 1
  /\ parsedAvailableTypes' = CapturedAfterCall(parsedAvailableTypes)
  /\ UNCHANGED <<availableMediaTypes, negotiator, mapToOriginal, failedAt, ranges>>
  /\ UNCHANGED parserVars
  /\ UNCHANGED tokenizerVars
  /\ UNCHANGED normaliserVars
  /\ UNCHANGED weightVars
  /\ UNCHANGED scanVars

\* The call's locals are dropped and the client starts its next request.
NextRequest ==
  /\ pc = "returned"
  /\ calls < MaxCalls
  /\ pc' = "ready"
  /\ ranges' = <<>>
  /\ accept' = NoAccept
  /\ permissive' = FALSE
  /\ tokens' = <<>>
  /\ parsedAcceptableTypes' = <<>>
  /\ qMap' = <<>>
  /\ map' = <<>>
  /\ overlappingTypes' = <<>>
  /\ result' = NoResult
  /\ UNCHANGED <<closureVars, calls>>
  /\ UNCHANGED parserVars
  /\ UNCHANGED tokenizerVars
  /\ UNCHANGED normaliserVars
  /\ UNCHANGED weightVars
  /\ UNCHANGED scanVars

Next == CreateNegotiator \/ AddRange \/ Negotiate \/ NextRequest

Spec == Init /\ [][Next]_vars

(***************************************************************************)
(* A caller that keeps using the array it gave to the factory: before its  *)
(* last request it changes, removes or reorders elements of it.            *)
(***************************************************************************)
\* What the caller's array can become: its first element assigned, its
\* first element removed (shift), its elements reversed.
Mutations(availableArray) ==
  { [availableArray EXCEPT ![1] = <<"x", "/", "y">>],
    Tail(availableArray),
    [i \in 1..Len(availableArray) |->
       availableArray[Len(availableArray) + 1 - i]] }

\* The caller writes to the array it passed to negotiateMediaTypeFactory,
\* which is the array the closure's availableMediaTypes refers to.
MutateAvailable ==
  /\ pc = "ready"
  /\ calls = MaxCalls - 1
  /\ ranges = <<>>
  /\ availableMediaTypes = mapToOriginal
  /\ availableMediaTypes # <<>>
  /\ \E m \in Mutations(availableMediaTypes) : availableMediaTypes' = m
  /\ UNCHANGED <<pc, negotiator, parsedAvailableTypes, mapToOriginal, failedAt,
                 calls, ranges, accept, permissive, tokens,
                 parsedAcceptableTypes, qMap, map, overlappingTypes, result>>
  /\ UNCHANGED parserVars
  /\ UNCHANGED tokenizerVars
  /\ UNCHANGED normaliserVars
  /\ UNCHANGED weightVars
  /\ UNCHANGED scanVars

CallerNext ==
  \/ CreateNegotiator
  \/ AddRange
  \/ Negotiate
  \/ NextRequest
  \/ MutateAvailable

CallerSpec == Init /\ [][CallerNext]_vars

(***************************************************************************)
(* parseMediaType used on its own: a caller puts a string together from    *)
(* fragments and parses it in strict or in permissive mode.               *)
(***************************************************************************)
\* Fragments of Content-Type values, well formed and not.
PiecePool ==
  { <<"a", "/", "B">>,
    <<"*", "/", "b">>,
    <<";", "P", "=", "x">>,
    <<";", "b", "=", "Y">>,
    <<";", "t", "=", "\"", "x", "\\", "\"", "y", "\"">>,
    <<";", "t", "=", "\"", "a", ";", "b", ",", "c", "\"">>,
    <<";", "t", "=", "\"", "x", "\\", "\\", "\"">>,
    <<";", "t", "=", "\"", "x">>,
    <<";", "f">>,
    <<";", "p", "=">>,
    <<";", "p", " ", "=", "x">>,
    <<";", "p", " ", "=">>,
    <<";", " ", "P", "=", "x">>,
    <<";">>,
    <<" ">>,
    <<"/">>,
    <<"@">>,
    <<",">> }

\* The string made of the fragments, in order.
RECURSIVE Concat(_)
Concat(ps) == IF ps = <<>> THEN <<>> ELSE Head(ps) \o Concat(Tail(ps))

\* The caller adds a fragment to the string.
AddPiece ==
  /\ parsed.kind = "none"
  /\ Len(pieces) < MaxPieces
  /\ \E piece \in PiecePool : pieces' = Append(pieces, piece)
  /\ UNCHANGED <<mode, parsed>>
  /\ UNCHANGED negotiationVars
  /\ UNCHANGED tokenizerVars
  /\ UNCHANGED normaliserVars
  /\ UNCHANGED weightVars
  /\ UNCHANGED scanVars

\* parseMediaType(mediaType, permissive)
ParseInput ==
  /\ parsed.kind = "none"
  /\ \E p \in BOOLEAN :
       /\ mode' = p
       /\ parsed' = ParseOutcome(ParseEnd(Concat(pieces), p), Concat(pieces), p)
  /\ UNCHANGED pieces
  /\ UNCHANGED negotiationVars
  /\ UNCHANGED tokenizerVars
  /\ UNCHANGED normaliserVars
  /\ UNCHANGED weightVars
  /\ UNCHANGED scanVars

ParserNext == AddPiece \/ ParseInput

ParserSpec == Init /\ [][ParserNext]_vars

(***************************************************************************)
(* parseAcceptHeader used on its own: a caller joins entries with commas   *)
(* and tokenizes the string, with or without typesOnly, in strict or in    *)
(* permissive mode.                                                        *)
(***************************************************************************)
\* What stands between the commas of an Accept value, well formed and not.
FragmentPool ==
  { <<>>,
    <<" ">>,
    <<"a", "/", "B">>,
    <<" ", "c", "/", "d", " ", ";", " ", "q", "=", "0", ".", "5", " ">>,
    <<"a", "/", "b", ";", "q", "=", "1">>,
    <<"a", "/", "b", ";", "t", "=", "\"", "x", ",", "y", ";", "z", "\"">>,
    <<"a", "/", "b", ";", "t", "=", "\"", "x", "\\", "\"", "y", "\"">>,
    <<"a", "/", "b", ";", "t", "=", "\"", "x", "\\", "\\", "\"", "y", "\"">>,
    <<"c", "/", "d", ";", "t", "=", "\"", "x">>,
    <<"c", "/", "d", ";", "f">>,
    <<"c", "/", "d", ";", "p", "=">>,
    <<"c", "/", "d", ";", "f", ";", "p", "=", ";", "q", "=", "1">>,
    <<"a", "/", "b", ";", "p", " ", "=", "x">>,
    <<"a", "/", "b", ";">>,
    <<"a", "@", "b">>,
    <<"a", "/", " ", "b">>,
    <<"a", "/", "b", ";", "p", " ", "x", "=", "y">>,
    <<"a", "/">>,
    <<"a">> }

\* The caller adds an entry to the string.
AddFragment ==
  /\ ~scanned
  /\ Len(fragments) < MaxFragments
  /\ \E fragment \in FragmentPool : fragments' = Append(fragments, fragment)
  /\ UNCHANGED <<typesOnly, lax, scanned, types>>
  /\ UNCHANGED negotiationVars
  /\ UNCHANGED parserVars
  /\ UNCHANGED normaliserVars
  /\ UNCHANGED weightVars
  /\ UNCHANGED scanVars

\* parseAcceptHeader(accept, typesOnly, permissive)
Tokenize ==
  /\ ~scanned
  /\ \E t \in BOOLEAN, p \in BOOLEAN :
       /\ typesOnly' = t
       /\ lax' = p
       /\ types' = parseAcceptHeader(Join(fragments), t, p)
  /\ scanned' = TRUE
  /\ UNCHANGED fragments
  /\ UNCHANGED negotiationVars
  /\ UNCHANGED parserVars
  /\ UNCHANGED normaliserVars
  /\ UNCHANGED weightVars
  /\ UNCHANGED scanVars

TokenizerNext == AddFragment \/ Tokenize

TokenizerSpec == Init /\ [][TokenizerNext]_vars

(***************************************************************************)
(* normaliseMediaType used on its own: a caller has a MediaType with some  *)
(* parameters, normalises it, and normalises the result or its original    *)
(* once more.                                                              *)
(***************************************************************************)
\* Types and subtypes of the MediaType values normalised.
TypePool ==
  { [type |-> <<"A">>, subtype |-> <<"b">>],
    [type |-> <<"a">>, subtype |-> <<"B">>],
    [type |-> <<"*">>, subtype |-> <<"*">>] }

\* Their parameters: names that differ in case only, with different values.
ParameterPool ==
  { <<<<"B">>, <<"x">>>>,
    <<<<"b">>, <<"Y">>>>,
    <<<<"a">>, <<"Z">>>>,
    <<<<"C">>, <<>>>>,
    <<<<"q">>, <<"0", ".", "5">>>> }

\* The caller's MediaType gets its type and subtype.
ChooseType ==
  /\ stage = "build"
  /\ source = NoMediaType
  /\ \E head \in TypePool :
       source' = [mt |-> head.type \o <<"/">> \o head.subtype,
                  params |-> <<>>,
                  type |-> head.type,
                  subtype |-> head.subtype]
  /\ UNCHANGED <<stage, normalised, again>>
  /\ UNCHANGED negotiationVars
  /\ UNCHANGED parserVars
  /\ UNCHANGED tokenizerVars
  /\ UNCHANGED weightVars
  /\ UNCHANGED scanVars

\* The caller's MediaType gets one more parameter.
AddParameter ==
  /\ stage = "build"
  /\ source # NoMediaType
  /\ Len(source.params) < MaxParams
  /\ \E pair \in ParameterPool :
       source' = [source EXCEPT !.params = Append(@, pair)]
  /\ UNCHANGED <<stage, normalised, again>>
  /\ UNCHANGED negotiationVars
  /\ UNCHANGED parserVars
  /\ UNCHANGED tokenizerVars
  /\ UNCHANGED weightVars
  /\ UNCHANGED scanVars

\* The argument after normaliseMediaType(mediaType): .map builds a new
\* array, which is the one sorted, and the getters only read.
ArgumentAfterNormalise(mediaType) == mediaType

\* normaliseMediaType(source)
Normalise ==
  /\ stage = "build"
  /\ source # NoMediaType
  /\ normalised' = normaliseMediaType(source)
  /\ source' = ArgumentAfterNormalise(source)
  /\ stage' = "normalised"
  /\ UNCHANGED again
  /\ UNCHANGED negotiationVars
  /\ UNCHANGED parserVars
  /\ UNCHANGED tokenizerVars
  /\ UNCHANGED weightVars
  /\ UNCHANGED scanVars

\* normaliseMediaType(normalised.original) or normaliseMediaType(normalised)
NormaliseAgain ==
  /\ stage = "normalised"
  /\ \/ /\ again' = normaliseMediaType(normalised.original)
        /\ stage' = "original again"
     \/ /\ again' = normaliseMediaType(normalised)
        /\ stage' = "result again"
  /\ UNCHANGED <<source, normalised>>
  /\ UNCHANGED negotiationVars
  /\ UNCHANGED parserVars
  /\ UNCHANGED tokenizerVars
  /\ UNCHANGED weightVars
  /\ UNCHANGED scanVars

NormaliserNext == ChooseType \/ AddParameter \/ Normalise \/ NormaliseAgain

NormaliserSpec == Init /\ [][NormaliserNext]_vars

(***************************************************************************)
(* findQ used on its own: a client writes a q value character by          *)
(* character, and the weight of a normalised media type that carries it is *)
(* looked up.                                                              *)
(***************************************************************************)
\* The characters q values are written with: digits, the point and a
\* character that is neither.
QChars == {"0", "1", "5", ".", "-"}

\* The parameter lists findQ is given for the q value v: none named q, q
\* alone, q after another parameter, and q twice.
QShapes(v) ==
  { <<<<<<"a">>, <<"Z">>>>>>,
    <<<<<<"q">>, v>>>>,
    <<<<<<"a">>, <<"Z">>>>, <<<<"q">>, v>>>>,
    <<<<<<"q">>, v>>, <<<<"q">>, <<"0">>>>>> }

\* The normalised media type a/b with the parameters ps.
Weighed(ps) ==
  normaliseMediaType([mt |-> <<"a", "/", "b">>, params |-> ps,
                      type |-> <<"a">>, subtype |-> <<"b">>])

\* The client writes one more character of the q value.
AddChar ==
  /\ weight = -1
  /\ Len(qtext) < MaxQLen
  /\ \E c \in QChars : qtext' = Append(qtext, c)
  /\ UNCHANGED <<weighed, weight>>
  /\ UNCHANGED negotiationVars
  /\ UNCHANGED parserVars
  /\ UNCHANGED tokenizerVars
  /\ UNCHANGED normaliserVars
  /\ UNCHANGED scanVars

\* findQ(weighed)
Weigh ==
  /\ weight = -1
  /\ \E ps \in QShapes(qtext) :
       /\ weighed' = Weighed(ps)
       /\ weight' = findQ(Weighed(ps))
  /\ UNCHANGED qtext
  /\ UNCHANGED negotiationVars
  /\ UNCHANGED parserVars
  /\ UNCHANGED tokenizerVars
  /\ UNCHANGED normaliserVars
  /\ UNCHANGED scanVars

WeightNext == AddChar \/ Weigh

WeightSpec == Init /\ [][WeightNext]_vars

(***************************************************************************)
(* The two for loops, one iteration at a time: a caller puts a string      *)
(* together, calls parseMediaType or parseAcceptHeader on it, and the loop *)
(* runs until its condition fails.                                         *)
(***************************************************************************)
\* Fragments of the strings scanned.
ScanPool ==
  { <<"a", "/", "B">>,
    <<";", "p", "=", "x">>,
    <<";", "t", "=", "\"", "x">>,
    <<";">>,
    <<",">>,
    <<" ">>,
    <<"@">> }

\* The string scanned.
ScanText == Concat(scanPieces)

\* The caller adds a fragment to the string.
WriteText ==
  /\ scanOf = "none"
  /\ Len(scanPieces) < MaxScanPieces
  /\ \E piece \in ScanPool : scanPieces' = Append(scanPieces, piece)
  /\ UNCHANGED <<scanOf, scanLoose, scanBare, cursor, visits, halted, verdict>>
  /\ UNCHANGED negotiationVars
  /\ UNCHANGED parserVars
  /\ UNCHANGED tokenizerVars
  /\ UNCHANGED normaliserVars
  /\ UNCHANGED weightVars

\* parseMediaType(mediaType, permissive) is called: let pos = 0, ...
EnterParse ==
  /\ scanOf = "none"
  /\ scanOf' = "parseMediaType"
  /\ \E p \in BOOLEAN : scanLoose' = p
  /\ cursor' = ParseStart
  /\ UNCHANGED <<scanPieces, scanBare, visits, halted, verdict>>
  /\ UNCHANGED negotiationVars
  /\ UNCHANGED parserVars
  /\ UNCHANGED tokenizerVars
  /\ UNCHANGED normaliserVars
  /\ UNCHANGED weightVars

\* parseAcceptHeader(accept, typesOnly, permissive) is called: let pos = 0, ...
EnterTokenize ==
  /\ scanOf = "none"
  /\ scanOf' = "parseAcceptHeader"
  /\ \E t \in BOOLEAN, p \in BOOLEAN :
       /\ scanBare' = t
       /\ scanLoose' = p
  /\ cursor' = TokStart
  /\ UNCHANGED <<scanPieces, visits, halted, verdict>>
  /\ UNCHANGED negotiationVars
  /\ UNCHANGED parserVars
  /\ UNCHANGED tokenizerVars
  /\ UNCHANGED normaliserVars
  /\ UNCHANGED weightVars

\* One iteration of parseMediaType's loop: pos <= mediaType.length holds.
ParseIteration ==
  /\ scanOf = "parseMediaType"
  /\ ~halted
  /\ cursor.pos <= Len(ScanText)
  /\ cursor' = ParseIterate(ScanText, scanLoose, cursor)
  /\ visits' = Append(visits, cursor.pos)
  /\ UNCHANGED <<scanPieces, scanOf, scanLoose, scanBare, halted, verdict>>
  /\ UNCHANGED negotiationVars
  /\ UNCHANGED parserVars
  /\ UNCHANGED tokenizerVars
  /\ UNCHANGED normaliserVars
  /\ UNCHANGED weightVars

\* parseMediaType's loop is left: pos <= mediaType.length fails, and the
\* function throws or returns.
ParseExit ==
  /\ scanOf = "parseMediaType"
  /\ ~halted
  /\ cursor.pos > Len(ScanText)
  /\ halted' = TRUE
  /\ verdict' = IF ParseRejects(cursor, ScanText, scanLoose) THEN "throw"
                ELSE "value"
  /\ UNCHANGED <<scanPieces, scanOf, scanLoose, scanBare, cursor, visits>>
  /\ UNCHANGED negotiationVars
  /\ UNCHANGED parserVars
  /\ UNCHANGED tokenizerVars
  /\ UNCHANGED normaliserVars
  /\ UNCHANGED weightVars

\* One iteration of parseAcceptHeader's loop: pos <= accept.length holds.
TokIteration ==
  /\ scanOf = "parseAcceptHeader"
  /\ ~halted
  /\ cursor.pos <= Len(ScanText)
  /\ cursor' = TokIterate(ScanText, scanBare, scanLoose, cursor)
  /\ visits' = Append(visits, cursor.pos)
  /\ UNCHANGED <<scanPieces, scanOf, scanLoose, scanBare, halted, verdict>>
  /\ UNCHANGED negotiationVars
  /\ UNCHANGED parserVars
  /\ UNCHANGED tokenizerVars
  /\ UNCHANGED normaliserVars
  /\ UNCHANGED weightVars

\* parseAcceptHeader's loop is left and the function returns types.
TokExit ==
  /\ scanOf = "parseAcceptHeader"
  /\ ~halted
  /\ cursor.pos > Len(ScanText)
  /\ halted' = TRUE
  /\ verdict' = "list"
  /\ UNCHANGED <<scanPieces, scanOf, scanLoose, scanBare, cursor, visits>>
  /\ UNCHANGED negotiationVars
  /\ UNCHANGED parserVars
  /\ UNCHANGED tokenizerVars
  /\ UNCHANGED normaliserVars
  /\ UNCHANGED weightVars

ScanNext ==
  \/ WriteText
  \/ EnterParse
  \/ EnterTokenize
  \/ ParseIteration
  \/ ParseExit
  \/ TokIteration
  \/ TokExit

ScanSpec == Init /\ [][ScanNext]_vars

\* A loop that has been entered keeps running: nothing in either function
\* waits for anything.
ScanLiveSpec ==
  /\ Init
  /\ [][ScanNext]_vars
  /\ WF_vars(ParseIteration)
  /\ WF_vars(ParseExit)
  /\ WF_vars(TokIteration)
  /\ WF_vars(TokExit)

(***************************************************************************)
(* Definitions shared by the properties below.  They restate what the      *)
(* specification says about one call; they are not taken from the closure. *)
(***************************************************************************)
\* A call has returned.
Returned == pc = "returned"

\* The last call ran on a negotiator with available types and got a
\* non-empty accept string, so it went through tokenizing and ranking.
Ranked ==
  /\ pc = "returned"
  /\ negotiator = "closure"
  /\ accept.given
  /\ accept.str # <<>>

Star == <<"*">>

\* The range e overlaps the available type a: equal lower-cased
\* type/subtype, or e is type/* of the same lower-cased type, or e is */*.
RangeOverlaps(e, a) ==
  \/ /\ toLowerCase(e.original.type) = toLowerCase(a.original.type)
     /\ toLowerCase(e.original.subtype) = toLowerCase(a.original.subtype)
  \/ /\ e.original.subtype = Star
     /\ toLowerCase(e.original.type) = toLowerCase(a.original.type)
  \/ /\ e.original.type = Star
     /\ e.original.subtype = Star

\* The available types the range e overlaps, as indices of the list.
OverlappedBy(e) ==
  {j \in 1..Len(parsedAvailableTypes) : RangeOverlaps(e, parsedAvailableTypes[j])}

\* The least element of a non-empty set of numbers.
Least(S) == CHOOSE x \in S : \A y \in S : x <= y

\* The entries of the last call that survived tokenizing, parsing and the
\* weight-0 drop, as positions of parsedAcceptableTypes.
Survivors == 1..Len(parsedAcceptableTypes)

\* The survivors that overlap some available type.
Overlapping == {i \in Survivors : OverlappedBy(parsedAcceptableTypes[i]) # {}}

(***************************************************************************)
(* C1: every value a negotiator returns is null or one of the strings of   *)
(* the list it was built from, character for character.                    *)
(***************************************************************************)
C1_ResultIsAnOriginalString ==
  Returned =>
    \/ result = Null
    \/ /\ result.kind = "string"
       /\ \E i \in 1..Len(availableMediaTypes) :
            result.str = availableMediaTypes[i]

\* A ranked call returned a string that is not in normalised form.
C1_Witness ==
  /\ Ranked
  /\ result.kind = "string"
  /\ toLowerCase(result.str) # result.str
  /\ \E i \in 1..Len(parsedAvailableTypes) :
       /\ mapToOriginal[i] = result.str
       /\ parsedAvailableTypes[i].mt # result.str

(***************************************************************************)
(* C2: on a negotiator built from a non-empty list, a call with accept     *)
(* absent or empty returns the first element of the list, for either value *)
(* of permissive, and nothing is tokenized or parsed.                      *)
(***************************************************************************)
C2_NoAcceptReturnsFirst ==
  (Returned /\ negotiator = "closure" /\ (~accept.given \/ accept.str = <<>>))
    => /\ result = Str(availableMediaTypes[1])
       /\ tokens = <<>>
       /\ parsedAcceptableTypes = <<>>

\* The empty string was passed, in permissive mode, to a negotiator whose
\* list has two different elements.
C2_Witness ==
  /\ Returned
  /\ negotiator = "closure"
  /\ accept.given
  /\ accept.str = <<>>
  /\ permissive
  /\ Len(availableMediaTypes) >= 2
  /\ availableMediaTypes[1] # availableMediaTypes[2]
  /\ result = Str(availableMediaTypes[1])

(***************************************************************************)
(* C3: a ranked call returns null exactly when no surviving entry overlaps *)
(* an available type, and a string in every other case.                    *)
(***************************************************************************)
C3_NoMatchIffNoOverlap ==
  Ranked =>
    /\ result.kind \in {"null", "string"}
    /\ (result = Null) <=> (Overlapping = {})

\* Entries survived, one of them a wildcard range, and none overlaps.
C3_Witness ==
  /\ Ranked
  /\ result = Null
  /\ Overlapping = {}
  /\ \E i \in Survivors : parsedAcceptableTypes[i].subtype = Star

(***************************************************************************)
(* The weight, the specificity and the shared parameters of a range, as    *)
(* the specification states them.                                          *)
(***************************************************************************)
\* The q value grammar: 0, 0.d, 0.dd, 0.ddd, 1, 1.0, 1.00, 1.000
ValidQValue(v) ==
  /\ Len(v) \in {1, 3, 4, 5}
  /\ v[1] \in {"0", "1"}
  /\ Len(v) > 1 =>
       /\ v[2] = "."
       /\ \A i \in 3..Len(v) : v[i] \in DIGIT /\ (v[1] = "1" => v[i] = "0")

DigitAt(v, i) == IF i <= Len(v) THEN Code(v[i]) - 48 ELSE 0

\* 1000 times the number a valid q value denotes.
Thousandths(v) ==
  1000 * DigitAt(v, 1) + 100 * DigitAt(v, 3) + 10 * DigitAt(v, 4) + DigitAt(v, 5)

\* The parameters of e, as parsed, that are named q in any letter case.
QParams(e) == SelectSeq(e.original.params, LAMBDA x : toLowerCase(x[1]) = <<"q">>)

\* The weight of the range e.
RangeWeight(e) ==
  IF QParams(e) = <<>> \/ ~ValidQValue(QParams(e)[1][2]) THEN 1000
  ELSE Thousandths(QParams(e)[1][2])

\* The available type the range e is associated with: the first it overlaps.
AssociatedWith(e) == Least(OverlappedBy(e))

\* The greatest weight among the overlapping survivors.
MaxWeight ==
  CHOOSE w \in {RangeWeight(parsedAcceptableTypes[i]) : i \in Overlapping} :
    \A i \in Overlapping : RangeWeight(parsedAcceptableTypes[i]) <= w

\* The overlapping survivors of greatest weight, by identity.
BestWeighted ==
  {parsedAcceptableTypes[i].id :
     i \in {k \in Overlapping : RangeWeight(parsedAcceptableTypes[k]) = MaxWeight}}

Concrete(e) == e.type # Star /\ e.subtype # Star
SubtypeWildcard(e) == e.type # Star /\ e.subtype = Star
FullWildcard(e) == e.type = Star /\ e.subtype = Star

\* e is more specific than f.
MoreSpecific(e, f) ==
  \/ Concrete(e) /\ SubtypeWildcard(f)
  \/ e.type # Star /\ FullWildcard(f)

SameSpecificity(e, f) ==
  /\ (e.type = Star) <=> (f.type = Star)
  /\ (e.subtype = Star) <=> (f.subtype = Star)

\* The number of parameters of e, other than q, whose lower-cased name and
\* exact value are those of a parameter of the available type e is
\* associated with.
SharedCount(e) ==
  Cardinality(
    {k \in 1..Len(e.original.params) :
       /\ toLowerCase(e.original.params[k][1]) # <<"q">>
       /\ \E j \in 1..Len(parsedAvailableTypes[AssociatedWith(e)].original.params) :
            /\ toLowerCase(parsedAvailableTypes[AssociatedWith(e)].original.params[j][1])
                 = toLowerCase(e.original.params[k][1])
            /\ parsedAvailableTypes[AssociatedWith(e)].original.params[j][2]
                 = e.original.params[k][2]})

\* The last call ranked at least one entry and returned a string.
Matched == Ranked /\ result.kind = "string"

\* Positions x before y in the ranked list.
RankedPairs ==
  {xy \in (1..Len(overlappingTypes)) \X (1..Len(overlappingTypes)) : xy[1] < xy[2]}

(***************************************************************************)
(* C4: the string returned is the available type associated with an        *)
(* overlapping entry of maximum weight; entries of lower weight are not    *)
(* ranked at all.                                                          *)
(***************************************************************************)
C4_HighestWeightDecides ==
  Matched =>
    /\ \A k \in 1..Len(overlappingTypes) :
         RangeWeight(overlappingTypes[k]) = MaxWeight
    /\ \E i \in Overlapping :
         /\ RangeWeight(parsedAcceptableTypes[i]) = MaxWeight
         /\ result.str = mapToOriginal[AssociatedWith(parsedAcceptableTypes[i])]

\* A concrete entry of lower weight, associated with the first available
\* type, lost against a wildcard entry of higher weight.
C4_Witness ==
  /\ Matched
  /\ ~Concrete(overlappingTypes[1])
  /\ \E i \in Overlapping :
       /\ RangeWeight(parsedAcceptableTypes[i]) < MaxWeight
       /\ Concrete(parsedAcceptableTypes[i])
       /\ AssociatedWith(parsedAcceptableTypes[i]) = 1
       /\ mapToOriginal[1] # result.str

(***************************************************************************)
(* C5: an entry of weight 0 is removed before sorting, filtering and       *)
(* ranking; it never selects the result, and the result is null when every *)
(* entry that overlaps an available type has weight 0.                     *)
(***************************************************************************)
C5_ZeroWeightIsDropped ==
  (Ranked /\ result.kind # "throw") =>
    /\ \A i \in 1..Len(tokens) :
         RangeWeight(Normalised(tokens, permissive, i)) = 0
           => \A k \in Survivors : parsedAcceptableTypes[k].id # i
    /\ \A k \in 1..Len(overlappingTypes) : RangeWeight(overlappingTypes[k]) # 0
    /\ (\A i \in 1..Len(tokens) :
          OverlappedBy(Normalised(tokens, permissive, i)) # {}
            => RangeWeight(Normalised(tokens, permissive, i)) = 0)
         => result = Null

\* The only entry that overlaps an available type has weight 0, another
\* entry survives, and the result is null.
C5_Witness ==
  /\ Ranked
  /\ result = Null
  /\ Survivors # {}
  /\ \E i \in 1..Len(tokens) :
       /\ RangeWeight(Normalised(tokens, permissive, i)) = 0
       /\ OverlappedBy(Normalised(tokens, permissive, i)) # {}

(***************************************************************************)
(* C6: the ranked entries are the overlapping entries of maximum weight; a *)
(* concrete entry ranks above every type/* entry and every entry whose     *)
(* type is not * ranks above */*; the result is the available type         *)
(* associated with the first of them.                                      *)
(***************************************************************************)
C6_MoreSpecificRanksFirst ==
  Matched =>
    /\ {overlappingTypes[k].id : k \in 1..Len(overlappingTypes)} = BestWeighted
    /\ \A xy \in RankedPairs :
         ~MoreSpecific(overlappingTypes[xy[2]], overlappingTypes[xy[1]])
    /\ result.str = mapToOriginal[AssociatedWith(overlappingTypes[1])]

\* A concrete entry won although a wildcard entry of the same weight came
\* first in the header and is associated with an earlier available type.
C6_Witness ==
  /\ Matched
  /\ \E xy \in RankedPairs :
       /\ xy[1] = 1
       /\ MoreSpecific(overlappingTypes[xy[1]], overlappingTypes[xy[2]])
       /\ overlappingTypes[xy[2]].id < overlappingTypes[xy[1]].id
       /\ AssociatedWith(overlappingTypes[xy[2]])
            < AssociatedWith(overlappingTypes[xy[1]])

(***************************************************************************)
(* C7: among ranked entries of equal specificity, one sharing more non-q   *)
(* parameters (lower-cased name, exact value) with its available type      *)
(* ranks first.                                                            *)
(***************************************************************************)
C7_SharedParametersRankFirst ==
  Matched =>
    \A xy \in RankedPairs :
      SameSpecificity(overlappingTypes[xy[1]], overlappingTypes[xy[2]])
        => SharedCount(overlappingTypes[xy[1]]) >= SharedCount(overlappingTypes[xy[2]])

\* An entry sharing a parameter, written in another letter case, won over
\* an entry of equal specificity that came first in the header and is
\* associated with an earlier available type.
C7_Witness ==
  /\ Matched
  /\ \E xy \in RankedPairs :
       /\ xy[1] = 1
       /\ SameSpecificity(overlappingTypes[xy[1]], overlappingTypes[xy[2]])
       /\ SharedCount(overlappingTypes[xy[1]]) > SharedCount(overlappingTypes[xy[2]])
       /\ overlappingTypes[xy[2]].id < overlappingTypes[xy[1]].id
       /\ AssociatedWith(overlappingTypes[xy[2]])
            < AssociatedWith(overlappingTypes[xy[1]])
       /\ overlappingTypes[1].original.params # overlappingTypes[1].params

(***************************************************************************)
(* C8: among ranked entries equal in specificity and in shared parameters, *)
(* the one whose available type comes earlier in the server's list ranks   *)
(* first, whatever the order of the ranges in the header.                  *)
(***************************************************************************)
C8_ServerOrderBreaksTies ==
  Matched =>
    \A xy \in RankedPairs :
      (/\ SameSpecificity(overlappingTypes[xy[1]], overlappingTypes[xy[2]])
       /\ SharedCount(overlappingTypes[xy[1]]) = SharedCount(overlappingTypes[xy[2]]))
        => AssociatedWith(overlappingTypes[xy[1]])
             <= AssociatedWith(overlappingTypes[xy[2]])

\* Two concrete ranges without shared parameters: the one written second
\* in the header won, because its available type is the server's first.
C8_Witness ==
  /\ Matched
  /\ \E xy \in RankedPairs :
       /\ xy[1] = 1
       /\ Concrete(overlappingTypes[xy[1]])
       /\ Concrete(overlappingTypes[xy[2]])
       /\ SharedCount(overlappingTypes[xy[1]]) = SharedCount(overlappingTypes[xy[2]])
       /\ overlappingTypes[xy[2]].id < overlappingTypes[xy[1]].id
       /\ AssociatedWith(overlappingTypes[xy[1]])
            < AssociatedWith(overlappingTypes[xy[2]])
       /\ result.str = mapToOriginal[1]

(***************************************************************************)
(* C9: every entry the overlap filter keeps is associated with exactly one *)
(* available type, the first it overlaps: */* with the first of the list,  *)
(* type/* with the first of that type, a concrete entry with the first of  *)
(* equal type and subtype; parameters play no part.                        *)
(***************************************************************************)
C9_AssociatedWithFirstOverlap ==
  (Ranked /\ result.kind # "throw") =>
    /\ DOMAIN map = {parsedAcceptableTypes[i].id : i \in Overlapping}
    /\ \A i \in Overlapping :
         /\ map[parsedAcceptableTypes[i].id]
              = AssociatedWith(parsedAcceptableTypes[i])
         /\ FullWildcard(parsedAcceptableTypes[i])
              => map[parsedAcceptableTypes[i].id] = 1
         /\ SubtypeWildcard(parsedAcceptableTypes[i])
              => map[parsedAcceptableTypes[i].id]
                   = Least({j \in 1..Len(parsedAvailableTypes) :
                              parsedAvailableTypes[j].type
                                = parsedAcceptableTypes[i].type})
         /\ Concrete(parsedAcceptableTypes[i])
              => map[parsedAcceptableTypes[i].id]
                   = Least({j \in 1..Len(parsedAvailableTypes) :
                              /\ parsedAvailableTypes[j].type
                                   = parsedAcceptableTypes[i].type
                              /\ parsedAvailableTypes[j].subtype
                                   = parsedAcceptableTypes[i].subtype})

\* An entry is associated with the first available type of its type and
\* subtype, whose parameters differ from its own, although a later
\* available type has exactly its parameters.
C9_Witness ==
  /\ Ranked
  /\ \E i \in Overlapping :
       /\ Concrete(parsedAcceptableTypes[i])
       /\ map[parsedAcceptableTypes[i].id] = 1
       /\ parsedAcceptableTypes[i].params # <<>>
       /\ QParams(parsedAcceptableTypes[i]) = <<>>
       /\ parsedAvailableTypes[1].params # parsedAcceptableTypes[i].params
       /\ \E j \in OverlappedBy(parsedAcceptableTypes[i]) :
            /\ j > 1
            /\ parsedAvailableTypes[j].params = parsedAcceptableTypes[i].params

\* The ranges of the header that parseMediaType accepts in the call's mode.
AcceptedRanges == SelectSeq(ranges, LAMBDA r : ~ParseThrows(r, permissive))

\* No range of the header holds a double quote, so that every comma of the
\* header separates two ranges.
NoQuotes == \A i \in 1..Len(accept.str) : accept.str[i] # "\""

(***************************************************************************)
(* C10: a call returns a string or null and never raises: every token that *)
(* reaches the parser is accepted, and a header gives the result of the    *)
(* same header without the ranges the parser rejects.                      *)
(***************************************************************************)
C10_RejectedRangesAreDropped ==
  /\ Returned => result.kind \in {"null", "string"}
  /\ Ranked => \A i \in 1..Len(tokens) : ~ParseThrows(tokens[i], permissive)
  /\ (Ranked /\ NoQuotes) =>
       result = NegotiateBody(Join(AcceptedRanges), permissive,
                              parsedAvailableTypes, mapToOriginal).result

(***************************************************************************)
(* C11: building a negotiator from a non-empty list raises when some       *)
(* element is rejected by the strict parse, at the first such element in   *)
(* list order, and no negotiator exists then; when every element is        *)
(* accepted the negotiator is built.                                       *)
(***************************************************************************)
C11_ConstructionFailsOnFirstInvalid ==
  (pc # "new" /\ availableMediaTypes # <<>>) =>
    /\ (\E i \in 1..Len(availableMediaTypes) :
          ParseThrows(availableMediaTypes[i], FALSE))
         => /\ pc = "threw"
            /\ negotiator = "none"
            /\ failedAt =
                 Least({i \in 1..Len(availableMediaTypes) :
                          ParseThrows(availableMediaTypes[i], FALSE)})
    /\ (\A i \in 1..Len(availableMediaTypes) :
          ~ParseThrows(availableMediaTypes[i], FALSE))
         => /\ pc # "threw"
            /\ negotiator = "closure"
            /\ failedAt = 0

\* The list holds two different rejected elements and construction failed
\* at the first.
C11_Witness ==
  /\ pc = "threw"
  /\ Len(availableMediaTypes) = 2
  /\ availableMediaTypes[1] # availableMediaTypes[2]
  /\ ParseThrows(availableMediaTypes[1], FALSE)
  /\ ParseThrows(availableMediaTypes[2], FALSE)
  /\ failedAt = 1

(***************************************************************************)
(* C12: a negotiator built from an empty list returns null for every call: *)
(* for an absent, an empty and any other accept string, in either mode.    *)
(***************************************************************************)
C12_EmptyListAlwaysNull ==
  (Returned /\ availableMediaTypes = <<>>) => result = Null

\* A permissive call with a header holding */* on a negotiator built from
\* the empty list.
C12_Witness ==
  /\ Returned
  /\ availableMediaTypes = <<>>
  /\ permissive
  /\ accept.given
  /\ \E i \in 1..Len(ranges) : ranges[i] = <<"*", "/", "*">>
  /\ result = Null

(***************************************************************************)
(* C13: in either mode the call tokenizes the accept string with           *)
(* typesOnly = false, so that every token carries the parameters of its    *)
(* range, and parses each token under the caller's permissive flag.        *)
(***************************************************************************)
C13_TokenizedWithParameters ==
  (Ranked /\ result.kind # "throw") =>
    /\ \E tokenizerPermissive \in BOOLEAN :
         tokens = parseAcceptHeader(accept.str, FALSE, tokenizerPermissive)
    /\ \A k \in Survivors :
         parsedAcceptableTypes[k].original
           = parseMediaType(tokens[parsedAcceptableTypes[k].id], permissive)

\* The range r is accepted by the permissive parse only.
NonRfc(r) == ParseThrows(r, FALSE) /\ ~ParseThrows(r, TRUE)

\* The header's range j stands between commas that separate ranges: no
\* earlier range opens a quote, and a range that opens one is the last.
Delimited(j) ==
  /\ \A k \in 1..(j - 1) : \A i \in 1..Len(ranges[k]) : ranges[k][i] # "\""
  /\ (\E i \in 1..Len(ranges[j]) : ranges[j][i] = "\"") => j = Len(ranges)

(***************************************************************************)
(* C14: in a permissive call a range that only the permissive parse        *)
(* accepts (whitespace around =, an empty value, a flag parameter, a       *)
(* quoted value cut at the end of input) is a candidate, and a header made *)
(* of one such range that overlaps an available type selects it.           *)
(***************************************************************************)
C14_PermissiveToleratesNonRfc ==
  (Ranked /\ permissive) =>
    /\ \A j \in 1..Len(ranges) :
         (NonRfc(ranges[j]) /\ Delimited(j))
           => \E i \in 1..Len(tokens) :
                /\ ~ParseThrows(tokens[i], TRUE)
                /\ parseMediaType(tokens[i], TRUE).mt
                     = parseMediaType(ranges[j], TRUE).mt
    /\ (/\ Len(ranges) = 1
        /\ NonRfc(ranges[1])
        /\ \E a \in 1..Len(parsedAvailableTypes) :
             parsedAvailableTypes[a].mt
               = toLowerCase(parseMediaType(ranges[1], TRUE).mt))
         => result.kind = "string"

\* The list a negotiator captures when it is built from availableMediaTypes.
AsConstructed ==
  [i \in 1..Len(availableMediaTypes) |->
     normaliseMediaType(parseMediaType(availableMediaTypes[i], FALSE))]

Delimiters == {" ", "\t", "/", ";", "=", ",", "\"", "\\", "@", EOF}

\* The string parsed.
Input == Concat(pieces)

\* A parse has returned a MediaType.
Accepted == parsed.kind = "value"

\* The fragment is a type, a slash and a subtype.
IsHead(piece) ==
  \E k \in 2..(Len(piece) - 1) :
    /\ piece[k] = "/"
    /\ \A i \in (1..Len(piece)) \ {k} : piece[i] \notin Delimiters

\* The fragment is a semicolon and a parameter that starts with its name.
IsParameter(piece) ==
  /\ Len(piece) >= 2
  /\ piece[1] = ";"
  /\ piece[2] \notin Delimiters

\* The position after the name of a parameter fragment.
NameEnd(piece) ==
  Least({k \in 3..(Len(piece) + 1) : CharAt(piece, k - 1) \in Delimiters})

\* The name a parameter fragment is written with.
NameWritten(piece) == SubSeq(piece, 2, NameEnd(piece) - 1)

\* The fragment is ;name=value with a bare value.
IsBareParameter(piece) ==
  /\ IsParameter(piece)
  /\ NameEnd(piece) < Len(piece)
  /\ piece[NameEnd(piece)] = "="
  /\ \A i \in (NameEnd(piece) + 1)..Len(piece) : piece[i] \notin Delimiters

\* The value a bare parameter fragment is written with.
ValueWritten(piece) == SubSeq(piece, NameEnd(piece) + 1, Len(piece))

\* The fragment holds a double quote.
HasQuote(piece) == \E i \in 1..Len(piece) : piece[i] = "\""

\* The string is a type/subtype followed by parameters without quotes.
PlainParameters ==
  /\ Len(pieces) >= 1
  /\ IsHead(pieces[1])
  /\ \A k \in 2..Len(pieces) : IsParameter(pieces[k]) /\ ~HasQuote(pieces[k])

(***************************************************************************)
(* C16: an accepted input yields one (name, value) pair per parameter, in  *)
(* the order written, names and bare values in the letter case written and *)
(* a repeated name once per occurrence; element 0 is the type, a slash and *)
(* the subtype as written.                                                 *)
(***************************************************************************)
C16_ParametersAsWritten ==
  (Accepted /\ PlainParameters) =>
    /\ parsed.mt = pieces[1]
    /\ parsed.mt = parsed.type \o <<"/">> \o parsed.subtype
    /\ Len(parsed.params) = Len(pieces) - 1
    /\ \A k \in 1..Len(parsed.params) :
         /\ parsed.params[k][1] = NameWritten(pieces[k + 1])
         /\ IsBareParameter(pieces[k + 1])
              => parsed.params[k][2] = ValueWritten(pieces[k + 1])

\* A strict parse of a/B;P=x;P=x: upper case kept, the name P twice.
C16_Witness ==
  /\ Accepted
  /\ ~mode
  /\ PlainParameters
  /\ Len(pieces) = 3
  /\ IsBareParameter(pieces[2])
  /\ pieces[3] = pieces[2]
  /\ parsed.mt # toLowerCase(parsed.mt)
  /\ parsed.params[1][1] # toLowerCase(parsed.params[1][1])
  /\ parsed.params[2] = parsed.params[1]

\* The position of the quote that closes a quoted value, looked for from
\* position i on: a backslash and the character after it are skipped as one
\* escape; 0 when the value is not closed.
RECURSIVE ClosingQuote(_, _)
ClosingQuote(piece, i) ==
  IF i > Len(piece) THEN 0
  ELSE IF piece[i] = "\\" THEN ClosingQuote(piece, i + 2)
  ELSE IF piece[i] = "\"" THEN i
  ELSE ClosingQuote(piece, i + 1)

\* The fragment is ;name="..." and ends with the closing quote.
IsQuotedParameter(piece) ==
  /\ IsParameter(piece)
  /\ NameEnd(piece) + 1 < Len(piece)
  /\ piece[NameEnd(piece)] = "="
  /\ piece[NameEnd(piece) + 1] = "\""
  /\ ClosingQuote(piece, NameEnd(piece) + 2) = Len(piece)

\* The text from position i up to position last, every escape \c replaced
\* by c.
RECURSIVE Unquoted(_, _, _)
Unquoted(piece, i, last) ==
  IF i > last THEN <<>>
  ELSE IF piece[i] = "\\" /\ i < last
    THEN <<piece[i + 1]>> \o Unquoted(piece, i + 2, last)
  ELSE <<piece[i]>> \o Unquoted(piece, i + 1, last)

\* The value a quoted parameter fragment denotes.
QuotedValueWritten(piece) == Unquoted(piece, NameEnd(piece) + 2, Len(piece) - 1)

\* The string is a type/subtype followed by bare and quoted parameters, one
\* of them quoted.
QuotedParameters ==
  /\ Len(pieces) >= 2
  /\ IsHead(pieces[1])
  /\ \A k \in 2..Len(pieces) :
       IsBareParameter(pieces[k]) \/ IsQuotedParameter(pieces[k])
  /\ \E k \in 2..Len(pieces) : IsQuotedParameter(pieces[k])

(***************************************************************************)
(* C17: a quoted parameter value is stored as the text between the opening *)
(* quote and the closing unescaped quote, every escape \c replaced by c:   *)
(* the quotes are removed, an escaped quote does not close the value, and  *)
(* a semicolon or a comma inside the quotes does not end the parameter.    *)
(***************************************************************************)
C17_QuotedValueUnescaped ==
  (parsed.kind # "none" /\ QuotedParameters) =>
    /\ Accepted
    /\ Len(parsed.params) = Len(pieces) - 1
    /\ \A k \in 1..(Len(pieces) - 1) :
         IsQuotedParameter(pieces[k + 1])
           => parsed.params[k]
                = <<NameWritten(pieces[k + 1]), QuotedValueWritten(pieces[k + 1])>>

\* The string is one token of the grammar: not empty, token characters only.
IsTokenRun(str) ==
  /\ str # <<>>
  /\ \A i \in 1..Len(str) :
       /\ str[i] \in TOKEN
       /\ str[i] \notin {" ", "\t", "/", ";", "=", ",", "\""}

(***************************************************************************)
(* C18: every MediaType the parser returns, in strict or permissive mode,  *)
(* has a type and a subtype that are non-empty runs of token characters,   *)
(* free of whitespace, slash, semicolon, equals sign, comma and quote.     *)
(***************************************************************************)
C18_TypeAndSubtypeAreTokens ==
  Accepted => IsTokenRun(parsed.type) /\ IsTokenRun(parsed.subtype)

\* A permissive parse accepted an input that starts with a space and goes
\* on after the subtype.
C18_Witness ==
  /\ Accepted
  /\ mode
  /\ Len(pieces) = 3
  /\ pieces[1] = <<" ">>
  /\ IsHead(pieces[2])

(***************************************************************************)
(* C19: in every MediaType the parser returns the type is * only if the    *)
(* subtype is * too; an input such as */b is not accepted.                 *)
(***************************************************************************)
C19_WildcardTypeNeedsWildcardSubtype ==
  Accepted => (parsed.type = Star => parsed.subtype = Star)

\* The last fragment of the string.
LastPiece == pieces[Len(pieces)]

\* The fragment is a bare parameter name: ;name
IsFlag(piece) == IsParameter(piece) /\ NameEnd(piece) = Len(piece) + 1

\* The fragment is a name and an equals sign with nothing after it: ;name=
IsEmptyValued(piece) ==
  /\ IsParameter(piece)
  /\ NameEnd(piece) = Len(piece)
  /\ piece[Len(piece)] = "="

\* The position of the equals sign of a fragment whose name is followed by
\* whitespace; 0 when something else follows the whitespace.
EqualsAfterSpace(piece) ==
  IF \E k \in (NameEnd(piece) + 1)..Len(piece) :
       /\ piece[k] = "="
       /\ \A i \in NameEnd(piece)..(k - 1) : piece[i] \in {" ", "\t"}
    THEN CHOOSE k \in (NameEnd(piece) + 1)..Len(piece) :
           /\ piece[k] = "="
           /\ \A i \in NameEnd(piece)..(k - 1) : piece[i] \in {" ", "\t"}
    ELSE 0

\* The fragment has whitespace between its name and the equals sign, and a
\* bare value or nothing after the sign: ;name =value
IsSpacedEquals(piece) ==
  /\ IsParameter(piece)
  /\ EqualsAfterSpace(piece) # 0
  /\ \A i \in (EqualsAfterSpace(piece) + 1)..Len(piece) : piece[i] \notin Delimiters

\* The fragment opens a quoted value that it does not close: ;name="text
IsOpenQuoted(piece) ==
  /\ IsParameter(piece)
  /\ NameEnd(piece) < Len(piece)
  /\ piece[NameEnd(piece)] = "="
  /\ piece[NameEnd(piece) + 1] = "\""
  /\ ClosingQuote(piece, NameEnd(piece) + 2) = 0

\* The string is a type/subtype, bare parameters, and a last parameter of
\* one of the four kinds that only the permissive mode takes.
EndsLax ==
  /\ parsed.kind # "none"
  /\ Len(pieces) >= 2
  /\ IsHead(pieces[1])
  /\ \A k \in 2..(Len(pieces) - 1) : IsBareParameter(pieces[k])
  /\ \/ IsFlag(LastPiece)
     \/ IsEmptyValued(LastPiece)
     \/ IsSpacedEquals(LastPiece)
     \/ IsOpenQuoted(LastPiece)

\* The pair stored for the last parameter.
LastParameter == parsed.params[Len(parsed.params)]

\* The strict parse raises on the string and the permissive parse accepts
\* it, storing one pair per parameter, the last under the name written.
StrictOnlyRejects ==
  IF mode
    THEN /\ Accepted
         /\ Len(parsed.params) = Len(pieces) - 1
         /\ LastParameter[1] = NameWritten(LastPiece)
    ELSE parsed.kind = "throw"

(***************************************************************************)
(* C20, as stated: the strict parse raises on a bare parameter name, on an *)
(* empty value after =, on whitespace between name and =, and on a quoted  *)
(* value open at the end of input; the permissive parse accepts each, the  *)
(* first three with an empty value and the last with the text up to the    *)
(* end of input.                                                           *)
(***************************************************************************)
C20_StrictRejectsPermissiveStoresEmpty ==
  EndsLax =>
    /\ StrictOnlyRejects
    /\ mode =>
         /\ (IsFlag(LastPiece) \/ IsEmptyValued(LastPiece) \/ IsSpacedEquals(LastPiece))
              => LastParameter[2] = <<>>
         /\ IsOpenQuoted(LastPiece)
              => LastParameter[2]
                   = Unquoted(LastPiece, NameEnd(LastPiece) + 2, Len(LastPiece))

(***************************************************************************)
(* C20, amended: as above, but with whitespace between name and = the      *)
(* permissive parse stores the value written after the =, which is empty   *)
(* only when nothing follows the sign.                                     *)
(***************************************************************************)
C20_StrictRejectsPermissiveStoresWritten ==
  EndsLax =>
    /\ StrictOnlyRejects
    /\ mode =>
         /\ (IsFlag(LastPiece) \/ IsEmptyValued(LastPiece))
              => LastParameter[2] = <<>>
         /\ IsSpacedEquals(LastPiece)
              => LastParameter[2]
                   = SubSeq(LastPiece, EqualsAfterSpace(LastPiece) + 1, Len(LastPiece))
         /\ IsOpenQuoted(LastPiece)
              => LastParameter[2]
                   = Unquoted(LastPiece, NameEnd(LastPiece) + 2, Len(LastPiece))

\* A permissive parse of a/B;p =x stored the value x.
C20_Witness ==
  /\ EndsLax
  /\ mode
  /\ IsSpacedEquals(LastPiece)
  /\ LastParameter[2] # <<>>

\* The string is a concrete type/subtype, bare name=value parameters and a
\* last `;` that nothing follows, and it has been parsed.
TrailingSemicolon ==
  /\ parsed.kind # "none"
  /\ Len(pieces) >= 2
  /\ IsHead(pieces[1])
  /\ pieces[1][1] # "*"
  /\ \A k \in 2..(Len(pieces) - 1) : IsBareParameter(pieces[k])
  /\ LastPiece = <<";">>

\* The parse gave what the string before its last fragment denotes.
FrontAsWritten ==
  /\ Accepted
  /\ parsed.mt = pieces[1]
  /\ Len(parsed.params) = Len(pieces) - 2
  /\ \A k \in 1..Len(parsed.params) :
       parsed.params[k] = <<NameWritten(pieces[k + 1]), ValueWritten(pieces[k + 1])>>

(***************************************************************************)
(* C21, as stated: an input that ends with a `;` that no parameter follows *)
(* is rejected by a strict parse, and a permissive parse accepts it with   *)
(* the `;` adding nothing.                                                 *)
(***************************************************************************)
C21_TrailingSemicolonStrictRejects ==
  TrailingSemicolon =>
    IF mode THEN FrontAsWritten ELSE parsed.kind = "throw"

(***************************************************************************)
(* C21, amended: an input that ends with a `;` that no parameter follows   *)
(* is accepted in strict mode as in permissive mode, and the `;` adds      *)
(* nothing to the result.                                                  *)
(***************************************************************************)
C21_TrailingSemicolonIsNoOp ==
  TrailingSemicolon => FrontAsWritten

\* A strict parse of a/B;P=x; has returned.
C21_Witness ==
  /\ TrailingSemicolon
  /\ ~mode
  /\ Len(pieces) = 3
  /\ Accepted
  /\ Len(parsed.params) = 1

\* The fragment is one space.
IsSpace(piece) == piece = <<" ">>

\* The fragment is a bare parameter with a space between `;` and its name.
IsSpacedParameter(piece) ==
  /\ Len(piece) >= 3
  /\ piece[1] = ";"
  /\ piece[2] = " "
  /\ IsBareParameter(<<";">> \o SubSeq(piece, 3, Len(piece)))

\* The fragment without its optional whitespace.
Unspaced(piece) ==
  IF IsSpace(piece) THEN <<>>
  ELSE IF IsSpacedParameter(piece) THEN <<";">> \o SubSeq(piece, 3, Len(piece))
  ELSE piece

\* Whitespace after the fragment stands after a subtype, after a parameter
\* value, after a `;` or after other such whitespace.
SpaceMayFollow(piece) ==
  \/ IsSpace(piece)
  \/ IsHead(piece)
  \/ IsBareParameter(piece)
  \/ IsSpacedParameter(piece)
  \/ IsQuotedParameter(piece)
  \/ piece = <<";">>

\* Every space fragment of the string stands before the type or in one of
\* the places above.
OptionalWhitespaceOnly ==
  \A k \in 1..Len(pieces) :
    IsSpace(pieces[k]) => (k = 1 \/ SpaceMayFollow(pieces[k - 1]))

\* The same string with this whitespace removed.
InputUnspaced == Concat([k \in 1..Len(pieces) |-> Unspaced(pieces[k])])

\* A space in the string.
HasSpace(str) == \E i \in 1..Len(str) : str[i] = " "

(***************************************************************************)
(* C22: a strict parse of a string with whitespace before the type, after  *)
(* the subtype, after a parameter value or next to a `;` yields what the   *)
(* strict parse of the string without that whitespace yields, and the      *)
(* whitespace is in no type/subtype, name or bare value of the result.     *)
(***************************************************************************)
C22_OptionalWhitespaceIsConsumed ==
  (parsed.kind # "none" /\ ~mode /\ OptionalWhitespaceOnly) =>
    /\ parsed = ParseOutcome(ParseEnd(InputUnspaced, FALSE), InputUnspaced, FALSE)
    /\ ~HasSpace(parsed.mt)
    /\ \A k \in 1..Len(parsed.params) :
         /\ ~HasSpace(parsed.params[k][1])
         /\ ~HasSpace(parsed.params[k][2])

\* A strict parse of " a/B " has returned a/B without parameters.
C22_Witness ==
  /\ Accepted
  /\ ~mode
  /\ Len(pieces) = 3
  /\ IsSpace(pieces[1])
  /\ IsHead(pieces[2])
  /\ IsSpace(pieces[3])
  /\ parsed.mt = pieces[2]
  /\ parsed.params = <<>>

(***************************************************************************)
(* C23: a permissive parse returns a MediaType for every input string; the *)
(* error is raised by strict parses only.                                  *)
(***************************************************************************)
C23_PermissiveNeverRaises ==
  (parsed.kind # "none" /\ mode) => Accepted

(***************************************************************************)
(* What the parts of a tokenized string denote, read off the parts.        *)
(***************************************************************************)
\* The string tokenized.
Header == Join(fragments)

\* The part holds nothing but whitespace.
IsBlank(fragment) == \A i \in 1..Len(fragment) : fragment[i] \in {" ", "\t"}

(***************************************************************************)
(* C24: whatever the string and the two flags, parseAcceptHeader returns a *)
(* sequence that holds no empty string, and the sequence is empty when the *)
(* string is empty or made of whitespace and commas only.                  *)
(***************************************************************************)
C24_TokenizerIsTotal ==
  scanned =>
    /\ DOMAIN types = 1..Len(types)
    /\ \A i \in 1..Len(types) : types[i] # <<>>
    /\ (\A k \in 1..Len(fragments) : IsBlank(fragments[k])) => types = <<>>

\* The string " ,," or the like has been tokenized in permissive mode.
C24_Witness ==
  /\ scanned
  /\ lax
  /\ Len(fragments) = 3
  /\ \A k \in 1..3 : IsBlank(fragments[k])
  /\ \E k \in 1..3 : fragments[k] # <<>>
  /\ types = <<>>

\* str stands in whole at the 0-based offset o.
OccursAt(str, whole, o) ==
  /\ o + Len(str) <= Len(whole)
  /\ SubSeq(whole, o + 1, o + Len(str)) = str

\* The strings of ts stand in whole one after the other, without overlap,
\* the first of them at offset from or later.  Taking the earliest place
\* for each string loses no arrangement.
RECURSIVE InOrderFrom(_, _, _)
InOrderFrom(ts, whole, from) ==
  IF ts = <<>> THEN TRUE
  ELSE /\ \E o \in from..Len(whole) : OccursAt(Head(ts), whole, o)
       /\ InOrderFrom(Tail(ts), whole,
                      Least({o \in from..Len(whole) : OccursAt(Head(ts), whole, o)})
                        + Len(Head(ts)))

(***************************************************************************)
(* C25: the strings returned are pieces of the input, letter case kept,    *)
(* that lie in the input from left to right in the order returned and do   *)
(* not overlap; weights do not change the order.                           *)
(***************************************************************************)
C25_OutputInInputOrder ==
  scanned => InOrderFrom(types, Header, 0)

\* " c/d ; q=0.5 ,a/b;q=1" has been tokenized: the entry of lower weight
\* comes first.
C25_Witness ==
  /\ scanned
  /\ ~typesOnly
  /\ Len(fragments) = 2
  /\ fragments[2] = <<"a", "/", "b", ";", "q", "=", "1">>
  /\ Len(fragments[1]) = 13
  /\ types = <<SubSeq(fragments[1], 2, 12), fragments[2]>>

\* The part holds no quote and so no comma of its own: it is one entry.
IsUnquoted(fragment) == \A i \in 1..Len(fragment) : fragment[i] # "\""

\* What the tokenizer returns for the part on its own, under the flags of
\* the call made: the entry's string if the entry is valid, nothing if not.
Alone(fragment) == parseAcceptHeader(fragment, typesOnly, lax)

\* The part on its own is a valid entry.
IsValidEntry(fragment) == Alone(fragment) # <<>>

\* The strings of the valid entries among the parts from k on, in order.
RECURSIVE ValidEntriesFrom(_)
ValidEntriesFrom(k) ==
  IF k > Len(fragments) THEN <<>>
  ELSE Alone(fragments[k]) \o ValidEntriesFrom(k + 1)

(***************************************************************************)
(* C26: an entry with a character its state does not allow yields nothing  *)
(* and ends at the next comma, after which the scan starts afresh: the     *)
(* strings returned are those of the valid entries, in order, whatever     *)
(* malformed entries stand before, between or after them.                  *)
(***************************************************************************)
C26_MalformedEntryIsSkipped ==
  (scanned /\ \A k \in 1..Len(fragments) : IsUnquoted(fragments[k])) =>
    types = ValidEntriesFrom(1)

\* The position of the first `;` of the part; past its end when it has none.
FirstSemicolon(fragment) ==
  Least({i \in 1..(Len(fragment) + 1) : CharAt(fragment, i - 1) \in {";", EOF}})

\* The type/subtype the part starts with.
HeadOf(fragment) == SubSeq(fragment, 1, FirstSemicolon(fragment) - 1)

\* What follows the type/subtype.
ParametersOf(fragment) == SubSeq(fragment, FirstSemicolon(fragment), Len(fragment))

\* The part is type/subtype;name=" and more: its one parameter opens a
\* quoted value.
OpensQuote(fragment) ==
  /\ IsHead(HeadOf(fragment))
  /\ IsParameter(ParametersOf(fragment))
  /\ NameEnd(ParametersOf(fragment)) < Len(ParametersOf(fragment))
  /\ ParametersOf(fragment)[NameEnd(ParametersOf(fragment))] = "="
  /\ ParametersOf(fragment)[NameEnd(ParametersOf(fragment)) + 1] = "\""

\* The position in the part of the quote that opens the value.
OpeningQuote(fragment) ==
  FirstSemicolon(fragment) + NameEnd(ParametersOf(fragment))

\* The positions after the opening quote of the quotes that no backslash
\* immediately precedes.
UnescapedQuotes(fragment) ==
  {i \in (OpeningQuote(fragment) + 1)..Len(fragment) :
     fragment[i] = "\"" /\ fragment[i - 1] # "\\"}

\* The part is an entry whose quoted value is closed by its last character.
IsClosedQuotedEntry(fragment) ==
  /\ OpensQuote(fragment)
  /\ UnescapedQuotes(fragment) = {Len(fragment)}

\* The part is an entry whose quoted value is not closed in the part.
IsOpenQuotedEntry(fragment) ==
  /\ OpensQuote(fragment)
  /\ UnescapedQuotes(fragment) = {}

\* The string of the entry that starts with part k and runs over the parts
\* up to part n.
EntryOver(k, n) ==
  IF typesOnly THEN HeadOf(fragments[k]) ELSE Join(SubSeq(fragments, k, n))

\* The string holds quoted values whose quotes pair up part by part: each
\* part is a closed quoted entry, or a quoted entry left open that no quote
\* follows, or a quote-free part that is blank or a valid entry.
QuotedHeader ==
  /\ \E k \in 1..Len(fragments) : ~IsUnquoted(fragments[k])
  /\ \A k \in 1..Len(fragments) :
       \/ IsClosedQuotedEntry(fragments[k])
       \/ /\ IsOpenQuotedEntry(fragments[k])
          /\ \A j \in (k + 1)..Len(fragments) : IsUnquoted(fragments[j])
       \/ /\ IsUnquoted(fragments[k])
          /\ IsBlank(fragments[k]) \/ IsValidEntry(fragments[k])

\* What is to be returned for the parts from k on: a closed quoted
\* entry whole, commas and semicolons inside the quotes included; an entry
\* left open with everything up to the end of the input in permissive mode
\* and nothing in strict mode.
RECURSIVE QuotedEntriesFrom(_)
QuotedEntriesFrom(k) ==
  IF k > Len(fragments) THEN <<>>
  ELSE IF IsOpenQuotedEntry(fragments[k])
    THEN IF lax THEN <<EntryOver(k, Len(fragments))>> ELSE <<>>
  ELSE IF IsClosedQuotedEntry(fragments[k])
    THEN <<EntryOver(k, k)>> \o QuotedEntriesFrom(k + 1)
  ELSE Alone(fragments[k]) \o QuotedEntriesFrom(k + 1)

(***************************************************************************)
(* C27: inside a quoted value a comma or a semicolon is an ordinary        *)
(* character and a quote after a backslash is literal; a quote that no     *)
(* backslash precedes closes the value; a value still open at the end of   *)
(* the input gives, in permissive mode, the entry running to the end of    *)
(* the input and, in strict mode, nothing.                                 *)
(***************************************************************************)
C27_QuotedValueKeepsSeparators ==
  (scanned /\ QuotedHeader) => types = QuotedEntriesFrom(1)

\* A string with a closed quoted value holding a comma, and then a value
\* left open before a comma, has been tokenized in permissive mode.
C27_Witness ==
  /\ scanned
  /\ lax
  /\ ~typesOnly
  /\ QuotedHeader
  /\ Len(fragments) = 3
  /\ IsClosedQuotedEntry(fragments[1])
  /\ \E i \in 1..Len(fragments[1]) : fragments[1][i] = ","
  /\ IsOpenQuotedEntry(fragments[2])
  /\ IsValidEntry(fragments[3])
  /\ Len(types) = 2
  /\ types[1] = fragments[1]
  /\ types[2] = fragments[2] \o <<",">> \o fragments[3]

\* The position of the first character of the part that is not whitespace.
FirstWritten(fragment) ==
  Least({i \in 1..Len(fragment) : fragment[i] \notin {" ", "\t"}})

\* The position of the last character of the part that is neither
\* whitespace nor a `;`.
LastWritten(fragment) ==
  CHOOSE i \in 1..Len(fragment) :
    /\ fragment[i] \notin {" ", "\t", ";"}
    /\ \A j \in (i + 1)..Len(fragment) : fragment[j] \in {" ", "\t", ";"}

\* The position after the subtype of the part.
SubtypeEnd(fragment) ==
  Least({i \in (FirstWritten(fragment) + 1)..(Len(fragment) + 1) :
           CharAt(fragment, i - 1) \in {" ", "\t", ";", EOF}})

\* The string of the entry the part holds: the type/subtype span with
\* typesOnly, and else the text from the type through the last parameter.
Written(fragment) ==
  IF typesOnly
    THEN SubSeq(fragment, FirstWritten(fragment), SubtypeEnd(fragment) - 1)
    ELSE SubSeq(fragment, FirstWritten(fragment), LastWritten(fragment))

\* Every part is free of quotes and is blank or a valid entry under the
\* mode of the call.
PlainEntries ==
  \A k \in 1..Len(fragments) :
    /\ IsUnquoted(fragments[k])
    /\ IsBlank(fragments[k]) \/ IsValidEntry(fragments[k])

\* The strings of the entries from part k on, as written.
RECURSIVE WrittenFrom(_)
WrittenFrom(k) ==
  IF k > Len(fragments) THEN <<>>
  ELSE IF IsBlank(fragments[k]) THEN WrittenFrom(k + 1)
  ELSE <<Written(fragments[k])>> \o WrittenFrom(k + 1)

(***************************************************************************)
(* C28: each string returned is, without typesOnly, the entry from the     *)
(* first character of its type through the end of its last parameter as    *)
(* written, flag and empty-valued parameters of permissive mode included   *)
(* and trailing whitespace and separators left out, and with typesOnly the *)
(* type/subtype span alone.                                                *)
(***************************************************************************)
C28_EntryStringAsWritten ==
  (scanned /\ PlainEntries) => types = WrittenFrom(1)

(***************************************************************************)
(* What normalising a MediaType is to give, read off the MediaType.        *)
(***************************************************************************)
\* normaliseMediaType has returned for source.
IsNormalised == stage # "build"

\* The name of the parameter at position i of source, in lower case.
LowerName(i) == toLowerCase(source.params[i][1])

\* The place of source's parameter i in the sorted list: after every
\* parameter of a lesser name and after the parameters of the same name that
\* stand before it.
Place(i) ==
  Cardinality({j \in 1..Len(source.params) : StrLess(LowerName(j), LowerName(i))})
    + Cardinality({j \in 1..i : LowerName(j) = LowerName(i)})

(***************************************************************************)
(* C29: normaliseMediaType returns the type/subtype in lower case, one     *)
(* parameter per parameter of its argument with the name in lower case and *)
(* the value unchanged, in ascending order of name with equal names in     *)
(* their original order and none merged, and the argument itself as        *)
(* original; the argument is not modified.                                 *)
(***************************************************************************)
C29_NormalisedForm ==
  IsNormalised =>
    /\ normalised.mt = toLowerCase(source.mt)
    /\ normalised.type = toLowerCase(source.type)
    /\ normalised.subtype = toLowerCase(source.subtype)
    /\ Len(normalised.params) = Len(source.params)
    /\ \A i \in 1..Len(source.params) :
         normalised.params[Place(i)] = <<LowerName(i), source.params[i][2]>>
    /\ \A i \in 1..(Len(normalised.params) - 1) :
         ~StrLess(normalised.params[i + 1][1], normalised.params[i][1])
    /\ normalised.original = source

\* A MediaType written in upper case with the parameters b=Y, B=x and a=Z,
\* in this order, has been normalised.
C29_Witness ==
  /\ IsNormalised
  /\ source.mt # toLowerCase(source.mt)
  /\ Len(source.params) = 3
  /\ source.params[1][1] = <<"b">>
  /\ source.params[2][1] = <<"B">>
  /\ source.params[3][1] = <<"a">>
  /\ normalised.params[2] = source.params[1]
  /\ normalised.params[3] = <<<<"b">>, source.params[2][2]>>

(***************************************************************************)
(* C30: normalising the original of a normalised value gives that value    *)
(* again, and normalising a normalised value gives the same type/subtype   *)
(* and the same parameter list.                                            *)
(***************************************************************************)
C30_NormaliseIsIdempotent ==
  /\ stage = "original again" => again = normalised
  /\ stage = "result again" =>
       /\ again.mt = normalised.mt
       /\ again.type = normalised.type
       /\ again.subtype = normalised.subtype
       /\ again.params = normalised.params

\* The normalised form of a MediaType in upper case with the parameters
\* B=x and b=Y has been normalised once more.
C30_Witness ==
  /\ stage = "result again"
  /\ source.mt # toLowerCase(source.mt)
  /\ Len(source.params) >= 2
  /\ source.params[1][1] = <<"B">>
  /\ source.params[2][1] = <<"b">>
  /\ again.params = normalised.params
  /\ normalised.params # source.params

(***************************************************************************)
(* The weight decoder.                                                     *)
(***************************************************************************)
\* The values of the parameters named q of the media type weighed, in order.
QValuesWeighed ==
  [i \in 1..Len(SelectSeq(weighed.params, LAMBDA x : x[1] = <<"q">>)) |->
     SelectSeq(weighed.params, LAMBDA x : x[1] = <<"q">>)[i][2]]

\* findQ has been called.
Weighs == weight # -1

\* C31: the weight decoder returns an integer between 0 and 1000, and exactly
\* 1000 when the media type has no q parameter or when the value of its first
\* q parameter is not a valid q value.
C31_WeightInRangeDefaultOnInvalid ==
  Weighs =>
    /\ weight \in 0..1000
    /\ (QValuesWeighed = <<>> \/ ~ValidQValue(QValuesWeighed[1])) => weight = 1000

\* A q value with four digits after the point is weighed, and one that
\* stands before a second q parameter.
C31_Witness ==
  /\ Weighs
  /\ qtext = <<"0", ".", "1", "5", "1", "5">>
  /\ Len(QValuesWeighed) = 2
  /\ weight = 1000

\* C32: for a q value of the form 0[.ddd] or 1[.000] the weight is 1000 times
\* the number it denotes, so that a larger q value has the larger weight.
C32_WeightIsThousandths ==
  (Weighs /\ QValuesWeighed # <<>> /\ ValidQValue(QValuesWeighed[1])) =>
    weight = Thousandths(QValuesWeighed[1])

\* The q value 0.05 is weighed.
C32_Witness ==
  /\ Weighs
  /\ QValuesWeighed # <<>>
  /\ QValuesWeighed[1] = <<"0", ".", "0", "5">>
  /\ weight = 50

(***************************************************************************)
(* The loops of the two scanners.                                          *)
(***************************************************************************)
\* parseMediaType's loop is the one running or left.
Parsing == scanOf = "parseMediaType"

\* The loop body has run with pos at the end of the string, where the
\* character read is the virtual one.
EndProcessed == visits # <<>> /\ visits[Len(visits)] = Len(ScanText)

\* What parseMediaType requires of its variables to return a value.
AcceptanceCondition ==
  /\ EndProcessed
  /\ cursor.type # <<>>
  /\ cursor.subtype # <<>>
  /\ cursor.state \in {STATE_SUBTYPE_END, STATE_PARAMS_START}

\* C33: parseMediaType accepts an input only if, after the character at the
\* virtual end-of-input position has been processed, both type and subtype
\* were captured and the state is subtype-end or params-start; the invalid
\* state is never left once entered, and a parse that has entered it fails in
\* strict and in permissive mode.
C33_AcceptanceAndAbsorbingInvalid ==
  /\ [](Parsing /\ verdict = "value" => AcceptanceCondition)
  /\ [](Parsing /\ halted /\ cursor.state = STATE_INVALID => verdict = "throw")
  /\ [][Parsing /\ cursor.state = STATE_INVALID =>
          cursor'.state = STATE_INVALID]_vars

\* A permissive parse entered the invalid state at the @ of a/B;@;p=x... and
\* has failed with characters left unread.
C33_Witness ==
  /\ Parsing
  /\ scanLoose
  /\ scanPieces = << <<"a", "/", "B">>, <<"@">>, <<";", "p", "=", "x">> >>
  /\ cursor.state = STATE_INVALID
  /\ Len(visits) < Len(ScanText)
  /\ verdict = "throw"

\* One of the two loops has been entered.
Scanning == scanOf # "none"

\* C34: parseMediaType and parseAcceptHeader terminate on every input of
\* length n: the loop body runs with pos = 0, 1, 2, ... in turn, so each
\* iteration advances the position by one and no position is visited twice;
\* there are at most n + 1 iterations, and the loop is left.
C34_ScansTerminate ==
  /\ [](\A i \in 1..Len(visits) : visits[i] = i - 1)
  /\ [](Len(visits) <= Len(ScanText) + 1)
  /\ [](Scanning /\ halted /\ ~(Parsing /\ cursor.state = STATE_INVALID) =>
          Len(visits) = Len(ScanText) + 1)
  /\ (Scanning ~> halted)

\* parseAcceptHeader has returned after n + 1 iterations over a string of
\* three fragments and more than eight characters.
C34_Witness ==
  /\ scanOf = "parseAcceptHeader"
  /\ halted
  /\ Len(scanPieces) = MaxScanPieces
  /\ Len(visits) = Len(ScanText) + 1
  /\ Len(visits) > 9

(***************************************************************************)
(* The tokenizer's output and the parser.                                  *)
(***************************************************************************)
\* parseMediaType accepts str in the mode p.
ParserAccepts(str, p) == ~ParseThrows(str, p)

\* Every string emitted with the parameters kept is accepted by
\* parseMediaType in the mode the tokenizer ran in.
EmittedEntriesAccepted ==
  (scanned /\ ~typesOnly) => \A i \in 1..Len(types) : ParserAccepts(types[i], lax)

\* Every string emitted with typesOnly is accepted in both modes, with an
\* empty parameter list.
EmittedTypesAccepted ==
  (scanned /\ typesOnly) =>
    \A i \in 1..Len(types) :
      /\ ParserAccepts(types[i], FALSE)
      /\ ParserAccepts(types[i], TRUE)
      /\ parseMediaType(types[i], TRUE).params = <<>>

\* C35: the two state machines agree: every string parseAcceptHeader emits
\* with typesOnly = false is accepted by parseMediaType in the same mode, and
\* every string it emits with typesOnly = true is accepted by parseMediaType in
\* both modes with an empty parameter list.
C35_TokenizerOutputIsParsed == EmittedEntriesAccepted /\ EmittedTypesAccepted

(***************************************************************************)
(* Strict and permissive parsing of the same input.                        *)
(***************************************************************************)
\* What parseMediaType yields for the caller's string in permissive mode.
PermissiveOutcome ==
  ParseOutcome(ParseEnd(Concat(pieces), TRUE), Concat(pieces), TRUE)

\* The strict parse of the caller's string has returned a value.
StrictAccepted == parsed.kind = "value" /\ ~mode

\* C36: every input parseMediaType accepts with permissive = false it also
\* accepts with permissive = true, with the same type, the same subtype and
\* the same parameter list.
C36_PermissiveExtendsStrict ==
  StrictAccepted =>
    /\ PermissiveOutcome.kind = "value"
    /\ PermissiveOutcome.type = parsed.type
    /\ PermissiveOutcome.subtype = parsed.subtype
    /\ PermissiveOutcome.params = parsed.params

\* A strict parse accepted a type with a token parameter and a quoted one.
C36_Witness ==
  /\ StrictAccepted
  /\ pieces = << <<"a", "/", "B">>, <<";", "P", "=", "x">>,
                 <<";", "t", "=", "\"", "x", "\\", "\"", "y", "\"">> >>
  /\ Len(parsed.params) = 2

(***************************************************************************)
(* The two modes of negotiate on one header.                               *)
(***************************************************************************)
\* Every range of the header is a media type of the strict grammar.
AllRangesStrictlyValid == \A i \in 1..Len(ranges) : ~ParseThrows(ranges[i], FALSE)

\* What negotiate yields for the header of the call just made in the mode p.
ResultInMode(p) ==
  Closure(negotiator, accept, p, availableMediaTypes, parsedAvailableTypes,
          mapToOriginal).result

\* C37: for every accept header whose ranges are all valid under the strict
\* grammar, negotiate(accept, true) and negotiate(accept, false) return the
\* same result.
C37_ModesAgreeOnStrictHeaders ==
  (pc = "returned" /\ accept.given /\ AllRangesStrictlyValid) =>
    ResultInMode(TRUE) = ResultInMode(FALSE)

(***************************************************************************)
(* The order of the ranges in the header.                                  *)
(***************************************************************************)
\* The ranges of the header in the opposite order.
Reordered == [i \in 1..Len(ranges) |-> ranges[Len(ranges) + 1 - i]]

\* What negotiate yields, in the mode of the call just made, for the header
\* with its ranges in the opposite order.
ResultReordered ==
  Closure(negotiator, [given |-> TRUE, str |-> Join(Reordered)], permissive,
          availableMediaTypes, parsedAvailableTypes, mapToOriginal).result

\* C38: for a fixed negotiator and permissive flag, the result of negotiate is
\* the same for every order of the comma-separated ranges of the header.
C38_RangeOrderIsIrrelevant ==
  (pc = "returned" /\ accept.given /\ accept.str = Join(ranges)) =>
    result = ResultReordered

(***************************************************************************)
(* The caller's array after construction.                                  *)
(***************************************************************************)
\* The caller's array is no longer what the factory was given.
Mutated == availableMediaTypes # mapToOriginal

\* What the call just made yields when the array is as the factory was given
\* it.
ResultUnmutated ==
  Closure(negotiator, accept, permissive, mapToOriginal, parsedAvailableTypes,
          mapToOriginal).result

\* C39: a negotiator's answers depend only on the available list as it was at
\* construction: a call made after the caller changed, removed or reordered
\* elements of its array returns what it would have returned had the array
\* been left alone, for a non-empty accept string and for an absent one.
C39_AnswersFixedAtConstruction ==
  (pc = "returned" /\ negotiator = "closure") => result = ResultUnmutated

(***************************************************************************)
(* Refusals.                                                               *)
(***************************************************************************)
\* The range r, as written in the header, is a refusal of the available type
\* o: it is a valid media range with the weight 0 whose lower-cased
\* type/subtype is that of o.
Refuses(r, o) ==
  /\ ~ParseThrows(r, FALSE)
  /\ RangeWeight(normaliseMediaType(parseMediaType(r, FALSE))) = 0
  /\ toLowerCase(parseMediaType(r, FALSE).mt) =
       toLowerCase(parseMediaType(o, FALSE).mt)

\* C40: negotiate never returns an available type the client explicitly
\* refused: when the header has a range with q=0 whose lower-cased
\* type/subtype equals that of an available type, that type is not the result,
\* whatever broader range with a non-zero weight also covers it.
C40_RefusedTypeIsNeverReturned ==
  (Ranked /\ result.kind = "string") =>
    \A i \in 1..Len(ranges) : ~Refuses(ranges[i], result.str)

====
